---- MODULE Spec2Model ----
(***************************************************************************)
(* State-machine model of Ember's DataStore (src/main/dataStore.ts): the   *)
(* in-memory AppDatabase, the persisted JSON document, the task lifecycle  *)
(* (createTask / updateTaskStatus / setPastDueStatuses) and the sync       *)
(* bundle export / import; and of the main process around it: the report   *)
(* scheduler, the IPC handlers and the past-due sweep timer.               *)
(*                                                                         *)
(* Conventions.  Ids are integers (randomUUID() yields an id never used    *)
(* before: 100 + nextId).  Timestamps are integers read from the clock     *)
(* `now`.  A handler takes each of its clock reads (Date.now(), nowIso())  *)
(* as a separate input; the reads of one call never decrease.  An absent   *)
(* optional field (undefined) is None for ids and times and NoNote for     *)
(* notes.  Arrays are sequences.                                           *)
(***************************************************************************)
EXTENDS Integers, Sequences, FiniteSets, TLC

VARIABLES
  data,    \* DataStore.data: the in-memory AppDatabase
  disk,    \* content of the persisted JSON document (ember-db.json)
  wrote,   \* whether the last handler called writeFileSync on that document
  now,     \* the system clock
  nextId,  \* number of ids handed out by randomUUID()
  call,    \* the last DataStore call: its name, argument and first clock reading
  ret,     \* what that call returned
  sessions, \* DataStore.sessions: the token -> userId map, as a set of pairs
  wall,     \* the wall clock read by dayjs(), in minutes
  scheduler, \* the ReportScheduler object: lastDigestSent, interval, armed timers
  pending,  \* the async callbacks suspended at an await of an email send
  io        \* what the main process did outside the store: the instants of
            \* the current day at which tick ran, report files, emails,
            \* renderer notifications, rejected promises

vars == <<data, disk, wrote, now, nextId, call, ret, sessions, wall, scheduler, pending, io>>

\* The state outside the DataStore; the store's own methods leave it alone.
mainVars == <<wall, scheduler, pending, io>>

-----------------------------------------------------------------------------
(* Bounds of the model.                                                    *)

MaxTime == 3

MaxActivities == 3

\* Signups stop when the store holds this many churches.
MaxChurches == 3

-----------------------------------------------------------------------------
(* Values.                                                                 *)

None == -1

NoNote == <<>>

Undefined == [undefined |-> TRUE]

\* Church.smtp and Contact.photoPath when absent.
NoSmtp == [host |-> "none"]

NoPath == <<>>

DB_VERSION == 3

TaskStatus == {"pending", "in-progress", "completed", "past-due", "rescheduled"}

Times == 0..MaxTime

\* Successive readings of the clock by one call, the first not before `now`.
Monotone(reads) ==
  /\ now <= reads[1]
  /\ \A k \in 1..(Len(reads) - 1) : reads[k] <= reads[k + 1]
  /\ reads[Len(reads)] <= MaxTime

\* Index of the first element of seq with the given id (Array.prototype.find /
\* some on `x.id === id`), 0 when there is none.
RECURSIVE IndexOfId(_, _, _)
IndexOfId(seq, id, i) ==
  IF i > Len(seq) THEN 0
  ELSE IF seq[i].id = id THEN i
  ELSE IndexOfId(seq, id, i + 1)

HasId(seq, id) == IndexOfId(seq, id, 1) # 0

Ids(seq) == {seq[i].id : i \in 1..Len(seq)}

Range(seq) == {seq[i] : i \in 1..Len(seq)}

\* The records of one kind that belong to a church, in stored order.
RECURSIVE OwnRecords(_, _)
OwnRecords(seq, churchId) ==
  IF seq = <<>> THEN <<>>
  ELSE IF Head(seq).churchId = churchId
       THEN <<Head(seq)>> \o OwnRecords(Tail(seq), churchId)
       ELSE OwnRecords(Tail(seq), churchId)

\* bcryptjs hashSync: the hash is a value made from the password.
hashSync(password) == <<"bcrypt", password>>

\* String.prototype.trim on a string given as its sequence of pieces, " "
\* being white space.
RECURSIVE trimStart(_)
trimStart(str) ==
  IF str # <<>> /\ Head(str) = " " THEN trimStart(Tail(str)) ELSE str

RECURSIVE trimEnd(_)
trimEnd(str) ==
  IF str # <<>> /\ str[Len(str)] = " " THEN trimEnd(SubSeq(str, 1, Len(str) - 1)) ELSE str

trim(str) == trimEnd(trimStart(str))

-----------------------------------------------------------------------------
(* Pure helpers of dataStore.ts.                                           *)

\* Faulty variant: the requested status is stored as given.
normalizeTaskStatus_Stale(status, dueDate, dateNow) == status

normalizeTaskStatus(status, dueDate, dateNow) ==
  IF status = "pending" /\ dueDate < dateNow THEN "past-due" ELSE status

\* findContact: first contact with that id AND that churchId, 0 when none.
RECURSIVE findContactFrom(_, _, _, _)
findContactFrom(contacts, contactId, churchId, i) ==
  IF i > Len(contacts) THEN 0
  ELSE IF contacts[i].id = contactId /\ contacts[i].churchId = churchId THEN i
  ELSE findContactFrom(contacts, contactId, churchId, i + 1)

findContact(d, contactId, churchId) == findContactFrom(d.contacts, contactId, churchId, 1)

\* Faulty variant: the entry is put on the log twice.
recordActivity_Twice(d, activity, id, t) ==
  LET logEntry == [id |-> id, type |-> activity.type, note |-> activity.note,
                   churchId |-> activity.churchId, contactId |-> activity.contactId,
                   userId |-> activity.userId, taskId |-> activity.taskId,
                   createdAt |-> t]
  IN [d EXCEPT !.activities = <<logEntry, logEntry>> \o d.activities,
               !.lastUpdated = t]

\* Faulty variant: the entry is pushed to the end of the log.
recordActivity_Push(d, activity, id, t) ==
  LET logEntry == [id |-> id, type |-> activity.type, note |-> activity.note,
                   churchId |-> activity.churchId, contactId |-> activity.contactId,
                   userId |-> activity.userId, taskId |-> activity.taskId,
                   createdAt |-> t]
  IN [d EXCEPT !.activities = Append(d.activities, logEntry),
               !.lastUpdated = t]

\* recordActivity on document d: the new entry gets a fresh id and
\* createdAt = t; the contact (when found) is touched; the entry is unshifted
\* to the head of the log; lastUpdated is set.  recordActivity does not persist.
recordActivity(d, activity, id, t) ==
  LET logEntry == [id |-> id, type |-> activity.type, note |-> activity.note,
                   churchId |-> activity.churchId, contactId |-> activity.contactId,
                   userId |-> activity.userId, taskId |-> activity.taskId,
                   createdAt |-> t]
      c == findContact(d, activity.contactId, activity.churchId)
      contacts1 == IF c # 0
                   THEN [d.contacts EXCEPT ![c].lastActivityAt = t, ![c].updatedAt = t]
                   ELSE d.contacts
  IN [d EXCEPT !.contacts = contacts1,
               !.activities = <<logEntry>> \o d.activities,
               !.lastUpdated = t]

\* persist: stamps lastUpdated and writes the whole document; the result is
\* both the new in-memory document and the new file content.
persist(d, t) == [d EXCEPT !.lastUpdated = t]

\* Faulty variant: the churches are returned with the campus list they store.
getSnapshot_StoredCampuses(d) ==
  [f \in DOMAIN d \ {"credentials"} |-> d[f]]

\* getSnapshot: the document without its credentials, each church with the
\* campuses of the campus table that carry its id.
getSnapshot(d) ==
  [f \in DOMAIN d \ {"credentials"} |->
     IF f = "churches"
     THEN [c \in 1..Len(d.churches) |->
             [d.churches[c] EXCEPT !.campuses = OwnRecords(d.campuses, d.churches[c].id)]]
     ELSE d[f]]

getUserName(d, userId) ==
  LET i == IndexOfId(d.users, userId, 1)
  IN IF i = 0 THEN "Unassigned" ELSE d.users[i].name

\* plan-lite is 1, plan-growth is 2.
seedPlans == << [id |-> 1], [id |-> 2] >>

-----------------------------------------------------------------------------
(* The document written by seedData() on first start, at clock reading 1.  *)
(* The second seed task is already overdue (due 12 hours before the seed). *)

seedData ==
  [version |-> DB_VERSION,
   lastUpdated |-> 1,
   churches |-> << [id |-> 1, planId |-> 2, primaryCampusId |-> 1, smtp |-> NoSmtp,
                    digestPreference |-> [dayOfWeek |-> 1, time |-> <<"0", "8", ":", "0", "0">>],
                    emailAlerts |-> TRUE, audibleAlerts |-> TRUE,
                    campuses |-> << [id |-> 1, churchId |-> 1, primary |-> TRUE] >>] >>,
   campuses |-> << [id |-> 1, churchId |-> 1, primary |-> TRUE] >>,
   users |-> << [id |-> 1, churchId |-> 1, name |-> "Sarah", role |-> "director",
                 email |-> <<"sarah@gracecity.church">>],
                [id |-> 2, churchId |-> 1, name |-> "Andre", role |-> "connector",
                 email |-> <<"andre@gracecity.church">>] >>,
   credentials |-> << [userId |-> 1, passwordHash |-> hashSync("director123")],
                      [userId |-> 2, passwordHash |-> hashSync("connector123")] >>,
   contacts |-> << [id |-> 1, churchId |-> 1, campusId |-> 1, temperature |-> "cool",
                    ownerId |-> 2, photoPath |-> NoPath,
                    createdAt |-> 1, updatedAt |-> 1, lastActivityAt |-> 1],
                   [id |-> 2, churchId |-> 1, campusId |-> 1, temperature |-> "warm",
                    ownerId |-> None, photoPath |-> NoPath,
                    createdAt |-> 1, updatedAt |-> 1, lastActivityAt |-> 1] >>,
   tasks |-> << [id |-> 1, churchId |-> 1, contactId |-> 1, assigneeId |-> 2,
                 status |-> "pending", dueDate |-> 2, createdAt |-> 1, updatedAt |-> 1,
                 completedAt |-> None, rescheduledFor |-> None, outcomeNote |-> NoNote],
                [id |-> 2, churchId |-> 1, contactId |-> 2, assigneeId |-> 2,
                 status |-> "in-progress", dueDate |-> 0, createdAt |-> 1, updatedAt |-> 1,
                 completedAt |-> None, rescheduledFor |-> None, outcomeNote |-> NoNote] >>,
   activities |-> << [id |-> 1, type |-> "note", note |-> <<"seed">>, churchId |-> 1,
                      contactId |-> 1, userId |-> 2, taskId |-> None, createdAt |-> 1] >>,
   plans |-> seedPlans,
   templates |-> << [id |-> 1, churchId |-> 1, category |-> "call"] >>]

-----------------------------------------------------------------------------
(* Task lifecycle.  Each handler is one atomic step (the store's methods   *)
(* are synchronous); `r` is the tuple of its clock reads in program order. *)

\* Time passes.
ClockTick ==
  /\ now < MaxTime
  /\ now' = now + 1
  /\ UNCHANGED <<data, disk, wrote, nextId, call, ret, sessions>>

\* r = <<timestamp, createdAt of the log entry, lastUpdated of persist>>
createTask(payload, r) ==
  /\ Monotone(r)
  /\ Len(data.activities) < MaxActivities
  /\ LET task == [id |-> 100 + nextId, churchId |-> payload.churchId,
                  contactId |-> payload.contactId, assigneeId |-> payload.assigneeId,
                  status |-> "pending", dueDate |-> payload.dueDate,
                  createdAt |-> r[1], updatedAt |-> r[1],
                  completedAt |-> None, rescheduledFor |-> None, outcomeNote |-> NoNote]
         d1 == [data EXCEPT !.tasks = Append(@, task)]
         d2 == recordActivity(d1,
                 [type |-> "task",
                  note |-> <<"Assignment scheduled", payload.category,
                             getUserName(d1, payload.assigneeId)>>,
                  churchId |-> payload.churchId, contactId |-> payload.contactId,
                  userId |-> payload.assigneeId, taskId |-> task.id],
                 100 + nextId + 1, r[2])
         d3 == persist(d2, r[3])
     IN /\ data' = d3
        /\ disk' = d3
        /\ wrote' = TRUE
        /\ now' = r[3]
        /\ nextId' = nextId + 2
        /\ call' = [op |-> "createTask", arg |-> payload, at |-> r[1]]
        /\ ret' = task
        /\ UNCHANGED sessions

\* r = <<Date.now() of normalizeTaskStatus, updatedAt, createdAt of the log
\*       entry, lastUpdated of persist>>
updateTaskStatus(update, r) ==
  /\ Monotone(r)
  /\ UNCHANGED sessions
  /\ LET i == IndexOfId(data.tasks, update.taskId, 1)
     IN IF i = 0
        THEN /\ call' = [op |-> "updateTaskStatus", arg |-> update, at |-> now]
             /\ ret' = Undefined
             /\ wrote' = FALSE
             /\ UNCHANGED <<data, disk, now, nextId>>
        ELSE /\ Len(data.activities) < MaxActivities
             /\ LET old == data.tasks[i]
                    t_a == [old EXCEPT
                              !.status = normalizeTaskStatus(update.status, old.dueDate, r[1]),
                              !.updatedAt = r[2]]
                    t_b == IF update.status = "completed"
                           THEN [t_a EXCEPT !.completedAt = r[2], !.outcomeNote = update.note]
                           ELSE t_a
                    task == IF update.status = "rescheduled"
                            THEN [t_b EXCEPT !.rescheduledFor = update.rescheduledFor,
                                             !.outcomeNote = update.note]
                            ELSE t_b
                    d1 == [data EXCEPT !.tasks[i] = task]
                    d2 == recordActivity(d1,
                            [type |-> "assignment-result",
                             note |-> IF update.note # NoNote THEN update.note
                                      ELSE <<"Updated task status to", task.status>>,
                             churchId |-> task.churchId, contactId |-> task.contactId,
                             userId |-> update.userId, taskId |-> task.id],
                            100 + nextId, r[3])
                    d3 == persist(d2, r[4])
                IN /\ data' = d3
                   /\ disk' = d3
                   /\ wrote' = TRUE
                   /\ now' = r[4]
                   /\ nextId' = nextId + 1
                   /\ call' = [op |-> "updateTaskStatus", arg |-> update, at |-> r[1]]
                   /\ ret' = d3.tasks[i]

\* Faulty variant: only pending tasks are swept.
SweepFlips_PendingOnly(task, dateNow) ==
  /\ task.status = "pending"
  /\ task.dueDate < dateNow

\* Faulty variant: tasks already past-due are flipped and reported again.
SweepFlips_Repeats(task, dateNow) ==
  /\ task.status # "completed"
  /\ task.dueDate < dateNow

\* The test of the sweep's loop body at clock reading dateNow: the task is not
\* completed, is overdue and is not already past-due.
SweepFlips(task, dateNow) ==
  /\ task.status # "completed"
  /\ task.dueDate < dateNow
  /\ task.status # "past-due"

\* Faulty variant: the document is written even when nothing changed.
setPastDueStatuses_AlwaysPersists(r) ==
  /\ Monotone(r)
  /\ UNCHANGED sessions
  /\ LET flips(task) == SweepFlips(task, r[1])
         tasks1 == [i \in 1..Len(data.tasks) |->
                      IF flips(data.tasks[i])
                      THEN [data.tasks[i] EXCEPT !.status = "past-due"]
                      ELSE data.tasks[i]]
         marked == [i \in 1..Len(data.tasks) |->
                      [flip |-> flips(data.tasks[i]), task |-> tasks1[i]]]
         pushed == SelectSeq(marked, LAMBDA m : m.flip)
         changed == [k \in 1..Len(pushed) |-> pushed[k].task]
         d1 == [data EXCEPT !.tasks = tasks1]
     IN /\ call' = [op |-> "setPastDueStatuses", arg |-> None, at |-> r[1]]
        /\ ret' = changed
        /\ nextId' = nextId
        /\ data' = persist(d1, r[2])
        /\ disk' = persist(d1, r[2])
        /\ wrote' = TRUE
        /\ now' = r[2]

\* r = <<Date.now() of the sweep, lastUpdated of persist>>; the second is read
\* only when something changed.
setPastDueStatuses(r) ==
  /\ Monotone(r)
  /\ UNCHANGED sessions
  /\ LET flips(task) == SweepFlips(task, r[1])
         tasks1 == [i \in 1..Len(data.tasks) |->
                      IF flips(data.tasks[i])
                      THEN [data.tasks[i] EXCEPT !.status = "past-due"]
                      ELSE data.tasks[i]]
         marked == [i \in 1..Len(data.tasks) |->
                      [flip |-> flips(data.tasks[i]), task |-> tasks1[i]]]
         pushed == SelectSeq(marked, LAMBDA m : m.flip)
         changed == [k \in 1..Len(pushed) |-> pushed[k].task]
         d1 == [data EXCEPT !.tasks = tasks1]
     IN /\ call' = [op |-> "setPastDueStatuses", arg |-> None, at |-> r[1]]
        /\ ret' = changed
        /\ nextId' = nextId
        /\ IF Len(changed) > 0
           THEN /\ data' = persist(d1, r[2])
                /\ disk' = persist(d1, r[2])
                /\ wrote' = TRUE
                /\ now' = r[2]
           ELSE /\ data' = d1
                /\ disk' = disk
                /\ wrote' = FALSE
                /\ now' = r[1]

-----------------------------------------------------------------------------
(* Task-lifecycle specification: the store constructed on a fresh          *)
(* installation, then any sequence of status updates, sweeps and clock     *)
(* ticks.  Each call here completes within one clock reading.              *)

\* Inputs of updateTaskStatus: both seed tasks with every status, the outcome
\* statuses with and without a note and a rescheduledFor, and an unknown id.
StatusUpdates ==
  {u \in [taskId : {1, 2, 999}, status : TaskStatus, userId : {2},
          note : {NoNote, <<"note">>}, rescheduledFor : {None, MaxTime}] :
     /\ u.note # NoNote => u.status \in {"completed", "rescheduled"}
     /\ u.rescheduledFor # None <=> (u.status = "rescheduled" /\ u.note # NoNote)
     /\ u.taskId = 999 => u.status = "pending"}

SameReading(n) == [k \in 1..n |-> now]

\* The main process before any timer fired: Sunday 00:00, nothing sent,
\* nothing awaited, nothing produced.
Idle ==
  /\ wall = 0
  /\ scheduler = [lastDigestSent |-> {}, interval |-> FALSE, timers |-> 0]
  /\ pending = <<>>
  /\ io = [ticks |-> {}, reports |-> <<>>, mails |-> <<>>, notifications |-> <<>>,
           rejected |-> <<>>, replies |-> {}]

Init ==
  /\ Idle
  /\ data = seedData
  /\ disk = seedData
  /\ wrote = TRUE
  /\ now = 1
  /\ nextId = 0
  /\ call = [op |-> "constructor", arg |-> None, at |-> 1]
  /\ ret = Undefined
  /\ sessions = {}

Next ==
  \/ ClockTick /\ UNCHANGED mainVars
  \/ \E update \in StatusUpdates : updateTaskStatus(update, SameReading(4)) /\ UNCHANGED mainVars
  \/ setPastDueStatuses(SameReading(2)) /\ UNCHANGED mainVars

Spec == Init /\ [][Next]_vars

-----------------------------------------------------------------------------
(* Sync bundles.                                                           *)

Null == [null |-> TRUE]

ChurchNotFound == [error |-> "Church not found."]

\* Faulty variant: every incoming record is pushed.
RECURSIVE admit_NoCheck(_, _)
admit_NoCheck(existing, incoming) ==
  IF incoming = <<>> THEN existing
  ELSE admit_NoCheck(Append(existing, Head(incoming)), Tail(incoming))

\* Faulty variant: an incoming record replaces the stored one with its id.
RECURSIVE admit_Overwrites(_, _)
admit_Overwrites(existing, incoming) ==
  IF incoming = <<>> THEN existing
  ELSE LET x == Head(incoming)
           i == IndexOfId(existing, x.id, 1)
       IN admit_Overwrites(IF i # 0 THEN [existing EXCEPT ![i] = x]
                           ELSE Append(existing, x),
                           Tail(incoming))

\* Faulty variant: the loop stops before the last incoming record.
RECURSIVE admit_DropsLast(_, _)
admit_DropsLast(existing, incoming) ==
  IF Len(incoming) <= 1 THEN existing
  ELSE LET x == Head(incoming)
       IN admit_DropsLast(IF HasId(existing, x.id) THEN existing ELSE Append(existing, x),
                          Tail(incoming))

\* Faulty variant: an incoming record is compared with the records stored
\* before the loop only, not with those pushed earlier in the loop.
admit_StoredOnly(existing, incoming) ==
  LET isNew(x) == ~HasId(existing, x.id)
  IN existing \o SelectSeq(incoming, isNew)

\* One forEach loop of importSyncBundle: each incoming record is pushed unless
\* a record with its id is already in the collection, which includes the
\* records pushed earlier in the same loop.
RECURSIVE admit(_, _)
admit(existing, incoming) ==
  IF incoming = <<>> THEN existing
  ELSE LET x == Head(incoming)
       IN admit(IF HasId(existing, x.id) THEN existing ELSE Append(existing, x),
                Tail(incoming))

\* Faulty variant: the campus and activity lists are not filtered by church.
syncBundleOf_Unfiltered(d, churchId, t) ==
  LET c == IndexOfId(d.churches, churchId, 1)
      ofChurch(x) == x.churchId = churchId
  IN IF c = 0 THEN Null
     ELSE [church |-> [d.churches[c] EXCEPT !.campuses = d.campuses],
           campuses |-> d.campuses,
           contacts |-> SelectSeq(d.contacts, ofChurch),
           tasks |-> SelectSeq(d.tasks, ofChurch),
           activities |-> d.activities,
           templates |-> SelectSeq(d.templates, ofChurch),
           generatedAt |-> t]

\* What createSyncBundle returns on document d at clock reading t.
syncBundleOf(d, churchId, t) ==
  LET c == IndexOfId(d.churches, churchId, 1)
      ofChurch(x) == x.churchId = churchId
      campuses == SelectSeq(d.campuses, ofChurch)
  IN IF c = 0 THEN Null
     ELSE [church |-> [d.churches[c] EXCEPT !.campuses = campuses],
           campuses |-> campuses,
           contacts |-> SelectSeq(d.contacts, ofChurch),
           tasks |-> SelectSeq(d.tasks, ofChurch),
           activities |-> SelectSeq(d.activities, ofChurch),
           templates |-> SelectSeq(d.templates, ofChurch),
           generatedAt |-> t]

\* r = <<generatedAt>>, read only when the church exists.
createSyncBundle(churchId, r) ==
  /\ Monotone(r)
  /\ call' = [op |-> "createSyncBundle", arg |-> [churchId |-> churchId], at |-> now]
  /\ ret' = syncBundleOf(data, churchId, r[1])
  /\ now' = IF HasId(data.churches, churchId) THEN r[1] ELSE now
  /\ wrote' = FALSE
  /\ UNCHANGED <<data, disk, nextId, sessions>>

\* Faulty variant: the bundle is merged without looking the church up.
importSyncBundle_NoChurchCheck(churchId, bundle, path, r) ==
  /\ Monotone(r)
  /\ UNCHANGED sessions
  /\ call' = [op |-> "importSyncBundle",
              arg |-> [churchId |-> churchId, bundle |-> bundle, path |-> path],
              at |-> now]
  /\ LET d1 == [data EXCEPT !.campuses = admit(@, bundle.campuses),
                            !.contacts = admit(@, bundle.contacts),
                            !.tasks = admit(@, bundle.tasks),
                            !.templates = admit(@, bundle.templates)]
         d2 == persist(d1, r[1])
     IN /\ data' = d2
        /\ disk' = d2
        /\ wrote' = TRUE
        /\ now' = r[1]
        /\ nextId' = nextId
        /\ ret' = [importedContacts |-> Len(d1.contacts) - Len(data.contacts),
                   importedTasks |-> Len(d1.tasks) - Len(data.tasks),
                   path |-> path]

\* r = <<lastUpdated of persist>>
importSyncBundle(churchId, bundle, path, r) ==
  /\ Monotone(r)
  /\ UNCHANGED sessions
  /\ call' = [op |-> "importSyncBundle",
              arg |-> [churchId |-> churchId, bundle |-> bundle, path |-> path],
              at |-> now]
  /\ IF ~HasId(data.churches, churchId)
     THEN /\ ret' = ChurchNotFound
          /\ wrote' = FALSE
          /\ UNCHANGED <<data, disk, now, nextId>>
     ELSE LET campuses1 == admit(data.campuses, bundle.campuses)
              contacts1 == admit(data.contacts, bundle.contacts)
              tasks1 == admit(data.tasks, bundle.tasks)
              templates1 == admit(data.templates, bundle.templates)
              d1 == [data EXCEPT !.campuses = campuses1, !.contacts = contacts1,
                                 !.tasks = tasks1, !.templates = templates1]
              d2 == persist(d1, r[1])
          IN /\ data' = d2
             /\ disk' = d2
             /\ wrote' = TRUE
             /\ now' = r[1]
             /\ nextId' = nextId
             /\ ret' = [importedContacts |-> Len(contacts1) - Len(data.contacts),
                        importedTasks |-> Len(tasks1) - Len(data.tasks),
                        path |-> path]

-----------------------------------------------------------------------------
(* Sync specification: the store of a fresh installation, then any         *)
(* sequence of exports, imports and clock ticks.  The bundle of an import  *)
(* is whatever the chosen JSON file holds: the bundle just exported, or    *)
(* records written by another installation, some with an id the store      *)
(* already has (and different fields), some new, some listed twice.        *)

ForeignCampuses ==
  << [id |-> 1, churchId |-> 1, primary |-> FALSE],
     [id |-> 7, churchId |-> 1, primary |-> FALSE],
     [id |-> 7, churchId |-> 1, primary |-> TRUE] >>

ForeignContacts ==
  << [id |-> 1, churchId |-> 1, campusId |-> 1, temperature |-> "hot",
      ownerId |-> None, photoPath |-> NoPath,
      createdAt |-> 0, updatedAt |-> 0, lastActivityAt |-> 0],
     [id |-> 7, churchId |-> 1, campusId |-> 7, temperature |-> "new",
      ownerId |-> None, photoPath |-> NoPath,
      createdAt |-> 0, updatedAt |-> 0, lastActivityAt |-> 0],
     [id |-> 7, churchId |-> 1, campusId |-> 7, temperature |-> "convert",
      ownerId |-> None, photoPath |-> NoPath,
      createdAt |-> 0, updatedAt |-> 0, lastActivityAt |-> 0] >>

ForeignTasks ==
  << [id |-> 1, churchId |-> 1, contactId |-> 1, assigneeId |-> 2,
      status |-> "completed", dueDate |-> 2, createdAt |-> 0, updatedAt |-> 0,
      completedAt |-> 0, rescheduledFor |-> None, outcomeNote |-> NoNote],
     [id |-> 7, churchId |-> 1, contactId |-> 7, assigneeId |-> 2,
      status |-> "pending", dueDate |-> 2, createdAt |-> 0, updatedAt |-> 0,
      completedAt |-> None, rescheduledFor |-> None, outcomeNote |-> NoNote],
     [id |-> 7, churchId |-> 1, contactId |-> 7, assigneeId |-> 2,
      status |-> "rescheduled", dueDate |-> 2, createdAt |-> 0, updatedAt |-> 0,
      completedAt |-> None, rescheduledFor |-> 3, outcomeNote |-> NoNote] >>

ForeignActivities ==
  << [id |-> 1, type |-> "call", note |-> <<"other">>, churchId |-> 1,
      contactId |-> 1, userId |-> 2, taskId |-> None, createdAt |-> 0],
     [id |-> 7, type |-> "visit", note |-> <<"visit">>, churchId |-> 1,
      contactId |-> 7, userId |-> 2, taskId |-> 7, createdAt |-> 0] >>

ForeignTemplates ==
  << [id |-> 1, churchId |-> 1, category |-> "visit"],
     [id |-> 7, churchId |-> 1, category |-> "text"] >>

ForeignChurch ==
  [id |-> 1, planId |-> 1, primaryCampusId |-> 7, smtp |-> NoSmtp,
   digestPreference |-> [dayOfWeek |-> 1, time |-> <<"0", "8", ":", "0", "0">>],
   emailAlerts |-> TRUE, audibleAlerts |-> TRUE,
   campuses |-> SubSeq(ForeignCampuses, 2, 2)]

SyncBundles ==
  [church : {ForeignChurch},
   campuses : {<<>>, ForeignCampuses},
   contacts : {<<>>, SubSeq(ForeignContacts, 1, 2), SubSeq(ForeignContacts, 2, 3)},
   tasks : {<<>>, SubSeq(ForeignTasks, 1, 2), SubSeq(ForeignTasks, 2, 3)},
   activities : {<<>>, ForeignActivities},
   templates : {<<>>, ForeignTemplates},
   generatedAt : {0}]

\* The bundles an import can be given in the current state.
BundleFiles ==
  SyncBundles \cup (IF call.op = "createSyncBundle" /\ ret # Null THEN {ret} ELSE {})

ChurchArgs == {1, 9}

NextSync ==
  \/ ClockTick /\ UNCHANGED mainVars
  \/ \E churchId \in ChurchArgs : createSyncBundle(churchId, SameReading(1)) /\ UNCHANGED mainVars
  \/ \E churchId \in ChurchArgs : \E bundle \in BundleFiles :
       importSyncBundle(churchId, bundle, "bundle.json", SameReading(1)) /\ UNCHANGED mainVars

SpecSync == Init /\ [][NextSync]_vars

-----------------------------------------------------------------------------
(* Transfer specification: bundles exported on another installation are    *)
(* imported here.  remoteData is the other installation's document (its    *)
(* randomUUID ids differ from every id of this one), remoteLater the same  *)
(* document after a contact and a task were created there.                 *)

remoteData ==
  [version |-> DB_VERSION,
   lastUpdated |-> 0,
   churches |-> << [id |-> 7, planId |-> 2, primaryCampusId |-> 7, smtp |-> NoSmtp,
                    digestPreference |-> [dayOfWeek |-> 1, time |-> <<"0", "8", ":", "0", "0">>],
                    emailAlerts |-> TRUE, audibleAlerts |-> TRUE,
                    campuses |-> << [id |-> 7, churchId |-> 7, primary |-> TRUE] >>] >>,
   campuses |-> << [id |-> 7, churchId |-> 7, primary |-> TRUE] >>,
   users |-> << [id |-> 7, churchId |-> 7, name |-> "Sarah", role |-> "director",
                 email |-> <<"sarah@gracecity.church">>] >>,
   credentials |-> << [userId |-> 7, passwordHash |-> hashSync("director123")] >>,
   contacts |-> << [id |-> 7, churchId |-> 7, campusId |-> 7, temperature |-> "cool",
                    ownerId |-> 7, photoPath |-> NoPath,
                    createdAt |-> 0, updatedAt |-> 0, lastActivityAt |-> 0],
                   [id |-> 8, churchId |-> 7, campusId |-> 7, temperature |-> "warm",
                    ownerId |-> None, photoPath |-> NoPath,
                    createdAt |-> 0, updatedAt |-> 0, lastActivityAt |-> 0] >>,
   tasks |-> << [id |-> 7, churchId |-> 7, contactId |-> 7, assigneeId |-> 7,
                 status |-> "pending", dueDate |-> 1, createdAt |-> 0, updatedAt |-> 0,
                 completedAt |-> None, rescheduledFor |-> None, outcomeNote |-> NoNote] >>,
   activities |-> << [id |-> 7, type |-> "note", note |-> <<"seed">>, churchId |-> 7,
                      contactId |-> 7, userId |-> 7, taskId |-> None, createdAt |-> 0] >>,
   plans |-> seedPlans,
   templates |-> << [id |-> 7, churchId |-> 7, category |-> "call"] >>]

remoteLater ==
  [remoteData EXCEPT
     !.contacts = Append(@, [id |-> 9, churchId |-> 7, campusId |-> 7, temperature |-> "new",
                             ownerId |-> 7, photoPath |-> NoPath,
                             createdAt |-> 0, updatedAt |-> 0, lastActivityAt |-> 0]),
     !.tasks = Append(@, [id |-> 9, churchId |-> 7, contactId |-> 9, assigneeId |-> 7,
                          status |-> "completed", dueDate |-> 0, createdAt |-> 0,
                          updatedAt |-> 0, completedAt |-> 0, rescheduledFor |-> None,
                          outcomeNote |-> NoNote])]

RemoteBundles == {syncBundleOf(d, 7, 0) : d \in {remoteData, remoteLater}}

\* A bundle with ids the store has, to mix with the exported ones.
OverlappingBundle ==
  [church |-> ForeignChurch, campuses |-> ForeignCampuses,
   contacts |-> SubSeq(ForeignContacts, 1, 2), tasks |-> SubSeq(ForeignTasks, 1, 2),
   activities |-> ForeignActivities, templates |-> ForeignTemplates, generatedAt |-> 0]

TransferFiles ==
  RemoteBundles \cup {OverlappingBundle}
    \cup (IF call.op = "createSyncBundle" /\ ret # Null THEN {ret} ELSE {})

NextTransfer ==
  \/ ClockTick /\ UNCHANGED mainVars
  \/ \E churchId \in ChurchArgs : createSyncBundle(churchId, SameReading(1)) /\ UNCHANGED mainVars
  \/ \E churchId \in ChurchArgs : \E bundle \in TransferFiles :
       importSyncBundle(churchId, bundle, "bundle.json", SameReading(1)) /\ UNCHANGED mainVars

SpecTransfer == Init /\ [][NextTransfer]_vars

-----------------------------------------------------------------------------
(* Contacts and activities.                                                *)

NoCampus == [error |-> "No campus configured for this church."]

\* The userId recorded when no user is known.
SystemUser == 0

\* Faulty variant: the primary campus of the first stored church, whichever
\* church was asked for.
getPrimaryCampusId_FirstChurch(d, churchId) ==
  IF d.churches = <<>> THEN None ELSE d.churches[1].primaryCampusId

getPrimaryCampusId(d, churchId) ==
  LET c == IndexOfId(d.churches, churchId, 1)
  IN IF c = 0 THEN None ELSE d.churches[c].primaryCampusId

\* Index of the first user of the church, 0 when none.
RECURSIVE firstUserOf(_, _, _)
firstUserOf(users, churchId, i) ==
  IF i > Len(users) THEN 0
  ELSE IF users[i].churchId = churchId THEN i
  ELSE firstUserOf(users, churchId, i + 1)

getDefaultUserId(d, churchId) ==
  LET u == firstUserOf(d.users, churchId, 1)
  IN IF u = 0 THEN SystemUser ELSE d.users[u].id

\* r = <<timestamp, createdAt of the log entry, lastUpdated of persist>>
createContact(payload, r) ==
  /\ Monotone(r)
  /\ UNCHANGED sessions
  /\ LET campusId == IF payload.campusId # None THEN payload.campusId
                     ELSE getPrimaryCampusId(data, payload.churchId)
     IN IF campusId = None
        THEN /\ call' = [op |-> "createContact", arg |-> payload, at |-> now]
             /\ ret' = NoCampus
             /\ wrote' = FALSE
             /\ UNCHANGED <<data, disk, now, nextId>>
        ELSE /\ Len(data.activities) < MaxActivities
             /\ LET contact == [id |-> 100 + nextId, churchId |-> payload.churchId,
                                campusId |-> campusId,
                                temperature |-> IF payload.temperature # None
                                                THEN payload.temperature ELSE "new",
                                ownerId |-> payload.ownerId, photoPath |-> NoPath,
                                createdAt |-> r[1], updatedAt |-> r[1],
                                lastActivityAt |-> r[1]]
                    d1 == [data EXCEPT !.contacts = Append(@, contact)]
                    d2 == recordActivity(d1,
                            [type |-> "note", note |-> <<"Contact created">>,
                             churchId |-> contact.churchId, contactId |-> contact.id,
                             userId |-> IF payload.ownerId # None THEN payload.ownerId
                                        ELSE getDefaultUserId(d1, contact.churchId),
                             taskId |-> None],
                            100 + nextId + 1, r[2])
                    d3 == persist(d2, r[3])
                IN /\ data' = d3
                   /\ disk' = d3
                   /\ wrote' = TRUE
                   /\ now' = r[3]
                   /\ nextId' = nextId + 2
                   /\ call' = [op |-> "createContact", arg |-> payload, at |-> r[1]]
                   /\ ret' = d3.contacts[Len(d3.contacts)]

\* r = <<updatedAt, createdAt of the log entry, lastUpdated of persist>>
updateContactStatus(update, r) ==
  /\ Monotone(r)
  /\ UNCHANGED sessions
  /\ LET i == findContact(data, update.contactId, update.churchId)
     IN IF i = 0
        THEN /\ call' = [op |-> "updateContactStatus", arg |-> update, at |-> now]
             /\ ret' = Undefined
             /\ wrote' = FALSE
             /\ UNCHANGED <<data, disk, now, nextId>>
        ELSE /\ Len(data.activities) < MaxActivities
             /\ LET old == data.contacts[i]
                    contact == [old EXCEPT
                                  !.temperature = update.temperature,
                                  !.ownerId = IF update.ownerId # None THEN update.ownerId ELSE @,
                                  !.updatedAt = r[1],
                                  !.lastActivityAt = r[1]]
                    d1 == [data EXCEPT !.contacts[i] = contact]
                    d2 == recordActivity(d1,
                            [type |-> "note",
                             note |-> IF update.note # NoNote THEN update.note
                                      ELSE <<"Temperature set to", update.temperature>>,
                             churchId |-> update.churchId, contactId |-> update.contactId,
                             userId |-> update.userId, taskId |-> None],
                            100 + nextId, r[2])
                    d3 == persist(d2, r[3])
                IN /\ data' = d3
                   /\ disk' = d3
                   /\ wrote' = TRUE
                   /\ now' = r[3]
                   /\ nextId' = nextId + 1
                   /\ call' = [op |-> "updateContactStatus", arg |-> update, at |-> r[1]]
                   /\ ret' = d3.contacts[i]

\* r = <<updatedAt, lastUpdated of persist>>.  The copy of the picture into the
\* uploads folder is outside the store; the stored path is uploads/<id>.<ext>.
updateContactPhoto(contactId, churchId, sourcePath, r) ==
  /\ Monotone(r)
  /\ UNCHANGED sessions
  /\ LET i == findContact(data, contactId, churchId)
         arg == [contactId |-> contactId, churchId |-> churchId, sourcePath |-> sourcePath]
     IN IF i = 0 \/ sourcePath = ""
        THEN /\ call' = [op |-> "updateContactPhoto", arg |-> arg, at |-> now]
             /\ ret' = IF i = 0 THEN Undefined ELSE data.contacts[i]
             /\ wrote' = FALSE
             /\ UNCHANGED <<data, disk, now, nextId>>
        ELSE LET d1 == [data EXCEPT !.contacts[i].photoPath = <<"uploads", contactId, sourcePath>>,
                                    !.contacts[i].updatedAt = r[1]]
                 d2 == persist(d1, r[2])
             IN /\ data' = d2
                /\ disk' = d2
                /\ wrote' = TRUE
                /\ now' = r[2]
                /\ nextId' = nextId
                /\ call' = [op |-> "updateContactPhoto", arg |-> arg, at |-> r[1]]
                /\ ret' = d2.contacts[i]

\* The activities:create handler: DataStore.recordActivity called on its own.
\* r = <<createdAt of the log entry>>
activityCreate(activity, r) ==
  /\ Monotone(r)
  /\ Len(data.activities) < MaxActivities
  /\ data' = recordActivity(data, activity, 100 + nextId, r[1])
  /\ nextId' = nextId + 1
  /\ now' = r[1]
  /\ wrote' = FALSE
  /\ call' = [op |-> "recordActivity", arg |-> activity, at |-> r[1]]
  /\ ret' = Head(data'.activities)
  /\ UNCHANGED <<disk, sessions>>

-----------------------------------------------------------------------------
(* Entity specification: the store of a fresh installation, then any       *)
(* sequence of the contact, task and activity handlers.  A call either     *)
(* completes within one clock reading or sees the clock tick between its   *)
(* reads.                                                                  *)

Min(a, b) == IF a < b THEN a ELSE b

TickingReads(n) == [k \in 1..n |-> Min(now + k - 1, MaxTime)]

ClockReads(n) == {SameReading(n), TickingReads(n)}

\* createContact: with and without a campus (99 is not a campus), with and
\* without an owner, for the seed church and for an unknown church.
ContactInputs ==
  {p \in [churchId : {1, 9}, campusId : {None, 1, 99}, temperature : {None},
          ownerId : {None, 2}] :
     /\ p.ownerId # None <=> (p.churchId = 1 /\ p.campusId = None)
     /\ p.churchId = 9 => p.campusId # 1}

ContactStatusUpdates ==
  {u \in [contactId : {1, 99}, churchId : {1}, temperature : {"hot"},
          ownerId : {None, 1}, userId : {2}, note : {NoNote}] :
     u.contactId = 99 <=> u.ownerId = None}

\* createTask: a task of seed contact 1 for seed user 2, and one whose
\* church, contact and assignee do not exist.
TaskInputs ==
  {p \in [churchId : {1, 9}, contactId : {1, 99}, assigneeId : {2, 99},
          category : {"call"}, dueDate : {2}] :
     (p.churchId = 9 /\ p.contactId = 99 /\ p.assigneeId = 99)
       \/ (p.churchId = 1 /\ p.contactId = 1 /\ p.assigneeId = 2)}

EntityStatusUpdates ==
  [taskId : {1, 999}, status : {"completed"}, userId : {2},
   note : {NoNote}, rescheduledFor : {None}]

ActivityInputs ==
  [type : {"call"}, note : {<<"called">>}, churchId : {1}, contactId : {1},
   userId : {2}, taskId : {None}]

PhotoInputs ==
  {<<1, 1, "a.png">>, <<1, 1, "">>, <<99, 1, "a.png">>}

NextEntities ==
  \/ ClockTick /\ UNCHANGED mainVars
  \/ \E payload \in ContactInputs : \E r \in ClockReads(3) : createContact(payload, r) /\ UNCHANGED mainVars
  \/ \E update \in ContactStatusUpdates : \E r \in ClockReads(3) :
       updateContactStatus(update, r) /\ UNCHANGED mainVars
  \/ \E p \in PhotoInputs : \E r \in ClockReads(2) : updateContactPhoto(p[1], p[2], p[3], r) /\ UNCHANGED mainVars
  \/ \E payload \in TaskInputs : \E r \in ClockReads(3) : createTask(payload, r) /\ UNCHANGED mainVars
  \/ \E update \in EntityStatusUpdates : \E r \in ClockReads(4) : updateTaskStatus(update, r) /\ UNCHANGED mainVars
  \/ \E activity \in ActivityInputs : \E r \in ClockReads(1) : activityCreate(activity, r) /\ UNCHANGED mainVars

SpecEntities == Init /\ [][NextEntities]_vars

-----------------------------------------------------------------------------
(* Load, signup and church settings.                                       *)

\* Index of the first campus flagged primary, 0 when none.
RECURSIVE firstPrimary(_, _)
firstPrimary(campuses, i) ==
  IF i > Len(campuses) THEN 0
  ELSE IF campuses[i].primary THEN i
  ELSE firstPrimary(campuses, i + 1)

\* Faulty variant: the stored primaryCampusId is kept even when it is absent.
primaryCampusOf_Kept(church, campuses) == church.primaryCampusId

\* hydrate's choice of a church's primary campus among its campuses:
\* the stored one, else the first flagged primary, else the first.
primaryCampusOf(church, campuses) ==
  IF church.primaryCampusId # None THEN church.primaryCampusId
  ELSE IF firstPrimary(campuses, 1) # 0 THEN campuses[firstPrimary(campuses, 1)].id
  ELSE campuses[1].id

\* hydrate's pass over the churches, from church i on.  st holds the churches,
\* the campus table, the count of ids drawn and the mutated flag.
RECURSIVE hydrateChurches(_, _)
hydrateChurches(st, i) ==
  IF i > Len(st.churches) THEN st
  ELSE LET church == st.churches[i]
           own == OwnRecords(st.campuses, church.id)
           fallback == [id |-> 100 + st.nextId, churchId |-> church.id, primary |-> TRUE]
           campuses == IF own = <<>> THEN <<fallback>> ELSE own
           church1 == [church EXCEPT !.campuses = campuses,
                                     !.primaryCampusId = primaryCampusOf(church, campuses)]
       IN hydrateChurches(
            [churches |-> [st.churches EXCEPT ![i] = church1],
             campuses |-> IF own = <<>> THEN Append(st.campuses, fallback) ELSE st.campuses,
             nextId |-> IF own = <<>> THEN st.nextId + 1 ELSE st.nextId,
             mutated |-> st.mutated \/ own = <<>>],
            i + 1)

\* hydrate's test on a contact: its campusId is set and is in the campus table.
campusKnown(d, contact) ==
  contact.campusId # None /\ HasId(d.campuses, contact.campusId)

\* The campus hydrate falls back to for a contact, None when there is none.
fallbackCampus(d, contact) ==
  LET own == OwnRecords(d.campuses, contact.churchId)
  IN IF getPrimaryCampusId(d, contact.churchId) # None
     THEN getPrimaryCampusId(d, contact.churchId)
     ELSE IF own # <<>> THEN own[1].id ELSE None

\* hydrate of the document read from a file.  file.hasCampuses tells whether
\* the JSON has a campuses table at all (content.campuses is then <<>>).
\* The result is the in-memory document, the mutated flag and the ids drawn.
hydrate(file, id) ==
  LET d0 == file.content
      st == hydrateChurches([churches |-> d0.churches, campuses |-> d0.campuses,
                             nextId |-> id, mutated |-> ~file.hasCampuses], 1)
      d1 == [d0 EXCEPT !.churches = st.churches, !.campuses = st.campuses]
      repaired(contact) == ~campusKnown(d1, contact) /\ fallbackCampus(d1, contact) # None
      contacts == [i \in 1..Len(d1.contacts) |->
                     IF repaired(d1.contacts[i])
                     THEN [d1.contacts[i] EXCEPT !.campusId = fallbackCampus(d1, d1.contacts[i])]
                     ELSE d1.contacts[i]]
  IN [data |-> [d1 EXCEPT !.contacts = contacts, !.version = DB_VERSION],
      mutated |-> st.mutated \/ \E i \in 1..Len(d1.contacts) : repaired(d1.contacts[i]),
      nextId |-> st.nextId]

\* r = <<timestamp, lastUpdated of persist>>
signup(payload, r) ==
  /\ Monotone(r)
  /\ IF \E u \in 1..Len(data.users) : data.users[u].email = payload.email
     THEN /\ call' = [op |-> "signup", arg |-> payload, at |-> now]
          /\ ret' = Null
          /\ wrote' = FALSE
          /\ UNCHANGED <<data, disk, now, nextId, sessions>>
     ELSE /\ Len(data.churches) < MaxChurches
          /\ LET plans == IF Len(data.plans) = 0 THEN seedPlans ELSE data.plans
                 churchId == 100 + nextId
                 userId == 100 + nextId + 1
                 campusId == 100 + nextId + 2
                 token == 100 + nextId + 3
                 campus == [id |-> campusId, churchId |-> churchId, primary |-> TRUE]
                 church == [id |-> churchId, planId |-> plans[1].id,
                            primaryCampusId |-> campusId, smtp |-> NoSmtp,
                            digestPreference |-> [dayOfWeek |-> 1, time |-> <<"0", "8", ":", "0", "0">>],
                            emailAlerts |-> FALSE, audibleAlerts |-> TRUE,
                            campuses |-> <<campus>>]
                 user == [id |-> userId, churchId |-> churchId, name |-> trim(payload.name),
                          role |-> "director", email |-> trim(payload.email)]
                 credential == [userId |-> userId, passwordHash |-> hashSync(payload.password)]
                 d1 == [data EXCEPT !.plans = plans,
                                    !.churches = Append(@, church),
                                    !.campuses = Append(@, campus),
                                    !.users = Append(@, user),
                                    !.credentials = Append(@, credential)]
                 d2 == persist(d1, r[2])
             IN /\ data' = d2
                /\ disk' = d2
                /\ wrote' = TRUE
                /\ now' = r[2]
                /\ nextId' = nextId + 4
                /\ sessions' = sessions \cup {[token |-> token, userId |-> userId]}
                /\ call' = [op |-> "signup", arg |-> payload, at |-> r[1]]
                /\ ret' = [token |-> token, user |-> user, church |-> church]

\* r = <<lastUpdated of persist>>
updatePlan(payload, r) ==
  /\ Monotone(r)
  /\ UNCHANGED <<nextId, sessions>>
  /\ LET c == IndexOfId(data.churches, payload.churchId, 1)
     IN IF c = 0
        THEN /\ call' = [op |-> "updatePlan", arg |-> payload, at |-> now]
             /\ ret' = Null
             /\ wrote' = FALSE
             /\ UNCHANGED <<data, disk, now>>
        ELSE LET d1 == [data EXCEPT !.churches[c].planId = payload.planId]
                 d2 == persist(d1, r[1])
             IN /\ data' = d2
                /\ disk' = d2
                /\ wrote' = TRUE
                /\ now' = r[1]
                /\ call' = [op |-> "updatePlan", arg |-> payload, at |-> r[1]]
                /\ ret' = d2.churches[c]

\* Of the SMTP settings the host is kept; the other fields are merged from the
\* payload and the stored settings field by field in the same way.
\* r = <<lastUpdated of persist>>
updateSmtpSettings(payload, r) ==
  /\ Monotone(r)
  /\ UNCHANGED <<nextId, sessions>>
  /\ LET c == IndexOfId(data.churches, payload.churchId, 1)
     IN IF c = 0
        THEN /\ call' = [op |-> "updateSmtpSettings", arg |-> payload, at |-> now]
             /\ ret' = Undefined
             /\ wrote' = FALSE
             /\ UNCHANGED <<data, disk, now>>
        ELSE LET smtp == IF payload.host = "" THEN NoSmtp ELSE [host |-> payload.host]
                 d1 == [data EXCEPT !.churches[c].smtp = smtp]
                 d2 == persist(d1, r[1])
             IN /\ data' = d2
                /\ disk' = d2
                /\ wrote' = TRUE
                /\ now' = r[1]
                /\ call' = [op |-> "updateSmtpSettings", arg |-> payload, at |-> r[1]]
                /\ ret' = smtp

-----------------------------------------------------------------------------
(* Administration specification: the store is constructed on the file of a *)
(* fresh installation or on a file left by an earlier version of the       *)
(* program, then any sequence of signups, plan and SMTP updates, imports   *)
(* and clock ticks.                                                        *)

\* A version 2 file: no campuses table, churches without primaryCampusId,
\* contacts without campusId.
legacyData ==
  [seedData EXCEPT
     !.version = 2,
     !.campuses = <<>>,
     !.churches = << [id |-> 1, planId |-> 2, primaryCampusId |-> None, smtp |-> NoSmtp,
                      digestPreference |-> [dayOfWeek |-> 1, time |-> <<"0", "8", ":", "0", "0">>],
                      emailAlerts |-> TRUE, audibleAlerts |-> TRUE,
                      campuses |-> <<>>] >>,
     !.contacts = [i \in 1..Len(seedData.contacts) |->
                     [seedData.contacts[i] EXCEPT !.campusId = None]]]

\* A file with a campuses table whose church has no primaryCampusId yet; the
\* second campus is the one flagged primary.
unsetPrimaryData ==
  [seedData EXCEPT
     !.campuses = << [id |-> 1, churchId |-> 1, primary |-> FALSE],
                     [id |-> 2, churchId |-> 1, primary |-> TRUE] >>,
     !.churches = << [id |-> 1, planId |-> 2, primaryCampusId |-> None, smtp |-> NoSmtp,
                      digestPreference |-> [dayOfWeek |-> 1, time |-> <<"0", "8", ":", "0", "0">>],
                      emailAlerts |-> TRUE, audibleAlerts |-> TRUE,
                      campuses |-> <<>>] >>]

\* A file with two churches, the second one without any campus and with a
\* contact whose campusId is unset.
secondChurchData ==
  [seedData EXCEPT
     !.churches = Append(@, [id |-> 3, planId |-> 1, primaryCampusId |-> None,
                             digestPreference |-> [dayOfWeek |-> 1, time |-> <<"0", "8", ":", "0", "0">>],
                             emailAlerts |-> TRUE, audibleAlerts |-> TRUE,
                             smtp |-> NoSmtp, campuses |-> <<>>]),
     !.contacts = Append(@, [id |-> 3, churchId |-> 3, campusId |-> None,
                             temperature |-> "new", ownerId |-> None, photoPath |-> NoPath,
                             createdAt |-> 0, updatedAt |-> 0, lastActivityAt |-> 0]),
     !.plans = <<>>]

StoredFiles ==
  { [content |-> seedData, hasCampuses |-> TRUE, fresh |-> TRUE],
    [content |-> legacyData, hasCampuses |-> FALSE, fresh |-> FALSE],
    [content |-> unsetPrimaryData, hasCampuses |-> TRUE, fresh |-> FALSE],
    [content |-> secondChurchData, hasCampuses |-> TRUE, fresh |-> FALSE] }

\* The constructor: ensureFile (writes the seed on a fresh installation), read,
\* hydrate, and persist when hydrate repaired something.
InitAdmin ==
  \E file \in StoredFiles :
    LET h == hydrate(file, 0)
    IN /\ data = IF h.mutated THEN persist(h.data, 1) ELSE h.data
       /\ disk = IF h.mutated THEN persist(h.data, 1) ELSE file.content
       /\ wrote = (h.mutated \/ file.fresh)
       /\ now = 1
       /\ nextId = h.nextId
       /\ call = [op |-> "constructor", arg |-> None, at |-> 1]
       /\ ret = Undefined
       /\ sessions = {}
       /\ Idle

\* A registered email, a new one, and the new one typed with a leading blank.
SignupPayloads ==
  [name : {<<"Pat">>}, password : {"secret"},
   email : {<<"andre@gracecity.church">>, <<"pat@newhope.church">>,
            <<" ", "pat@newhope.church">>}]

PlanUpdates == [churchId : {1, 9}, planId : {1}]

SmtpInputs ==
  {p \in [churchId : {1, 9}, host : {"", "smtp.gracecity.church"}] :
     p.churchId = 9 => p.host = ""}

AdminFiles == {syncBundleOf(remoteData, 7, 0), OverlappingBundle}

NextAdmin ==
  \/ ClockTick /\ UNCHANGED mainVars
  \/ \E payload \in SignupPayloads : signup(payload, SameReading(2)) /\ UNCHANGED mainVars
  \/ \E payload \in PlanUpdates : updatePlan(payload, SameReading(1)) /\ UNCHANGED mainVars
  \/ \E payload \in SmtpInputs : updateSmtpSettings(payload, SameReading(1)) /\ UNCHANGED mainVars
  \/ \E churchId \in ChurchArgs : \E bundle \in AdminFiles :
       importSyncBundle(churchId, bundle, "bundle.json", SameReading(1)) /\ UNCHANGED mainVars

SpecAdmin == InitAdmin /\ [][NextAdmin]_vars

-----------------------------------------------------------------------------
(* The wall clock and the calendar.  wall counts the minutes from Sunday   *)
(* 30 July 2023, 00:00 local time, so day 1 is Monday 31 July, the last    *)
(* day of its month, and day 32 is Thursday 31 August.                     *)

At(dayNo, h, m) == (dayNo * 24 + h) * 60 + m

dayIndex(w) == w \div (24 * 60)

\* dayjs().day(): 0 is Sunday.
day(w) == dayIndex(w) % 7

hour(w) == (w % (24 * 60)) \div 60

minute(w) == w % 60

\* The calendar date of an instant (what format('YYYY-MM-DD') prints).
dateOf(w) ==
  IF dayIndex(w) <= 1 THEN [year |-> 2023, month |-> 7, date |-> 30 + dayIndex(w)]
  ELSE IF dayIndex(w) <= 32 THEN [year |-> 2023, month |-> 8, date |-> dayIndex(w) - 1]
  ELSE [year |-> 2023, month |-> 9, date |-> dayIndex(w) - 32]

daysInMonth(w) == IF dateOf(w).month = 9 THEN 30 ELSE 31

\* String.prototype.split on a separator, for a string given as its sequence
\* of characters.
RECURSIVE split(_, _)
split(str, sep) ==
  IF \A k \in 1..Len(str) : str[k] # sep THEN <<str>>
  ELSE LET k == CHOOSE j \in 1..Len(str) :
                  str[j] = sep /\ \A h \in 1..(j - 1) : str[h] # sep
       IN <<SubSeq(str, 1, k - 1)>> \o split(SubSeq(str, k + 1, Len(str)), sep)

DigitOf(c) ==
  CASE c = "0" -> 0 [] c = "1" -> 1 [] c = "2" -> 2 [] c = "3" -> 3 [] c = "4" -> 4
    [] c = "5" -> 5 [] c = "6" -> 6 [] c = "7" -> 7 [] c = "8" -> 8 [] c = "9" -> 9

\* Number() of a string of decimal digits.
RECURSIVE Number(_)
Number(str) ==
  IF str = <<>> THEN 0
  ELSE 10 * Number(SubSeq(str, 1, Len(str) - 1)) + DigitOf(str[Len(str)])

-----------------------------------------------------------------------------
(* The report scheduler.  A tick runs until it awaits an email send; the   *)
(* send later resolves or rejects, and the tick goes on or ends there.     *)
(* m is the main-process state a tick works on: scheduler, io and pending. *)

MaxPending == 2

\* Faulty variant: the hour of the preference is not compared.
dueTime_AnyHour(preference, w) ==
  LET parts == split(preference.time, ":")
  IN ~(minute(w) < Number(parts[2]) \/ minute(w) > Number(parts[2]) + 5)

\* tick's test of the time of day: the hour is the configured one and the
\* minute is the configured one or up to five later.
dueTime(preference, w) ==
  LET parts == split(preference.time, ":")
  IN ~(hour(w) # Number(parts[1])
         \/ minute(w) < Number(parts[2])
         \/ minute(w) > Number(parts[2]) + 5)

\* Faulty variant: the marker is keyed by the minute, not by the date.
digestKey_Minute(church, w) == <<church.id, w>>

\* `${church.id}-${now.format('YYYY-MM-DD')}`
digestKey(church, w) == <<church.id, dateOf(w)>>

\* Index of the church's first director in the snapshot's users, 0 when none.
RECURSIVE directorFrom(_, _, _)
directorFrom(users, churchId, i) ==
  IF i > Len(users) THEN 0
  ELSE IF users[i].churchId = churchId /\ users[i].role = "director" THEN i
  ELSE directorFrom(users, churchId, i + 1)

\* An async callback suspended at `await emailService.send...`.
Suspended(kind, snapshot, i, stage, n, mail, groups, task) ==
  [kind |-> kind, snapshot |-> snapshot, i |-> i, stage |-> stage, now |-> n,
   mail |-> mail, groups |-> groups, task |-> task]

digestMail(snapshot, church, label) ==
  [to |-> snapshot.users[directorFrom(snapshot.users, church.id, 1)].email,
   subject |-> <<church.id, label, "Activity Digest">>,
   smtp |-> church.smtp]

digestNotification(church, title, w) ==
  [title |-> title, kind |-> "digest", churchId |-> church.id, timestamp |-> w]

\* The loop of tick from church i on, at wall clock w; afterWeekly and
\* afterMonthly are the code after the first and the second await, n being the
\* clock reading of the church's iteration.
RECURSIVE tickFrom(_, _, _, _)
RECURSIVE afterWeekly(_, _, _, _, _)
RECURSIVE afterMonthly(_, _, _, _, _)

tickFrom(m, snapshot, i, w) ==
  IF i > Len(snapshot.churches) THEN m
  ELSE LET church == snapshot.churches[i]
           preference == church.digestPreference
           key == digestKey(church, w)
       IN IF day(w) # preference.dayOfWeek THEN m
          ELSE IF ~dueTime(preference, w) THEN m
          ELSE IF [churchId |-> church.id, key |-> key] \in m.scheduler.lastDigestSent THEN m
          ELSE LET m1 == [m EXCEPT
                            !.scheduler.lastDigestSent =
                               {e \in @ : e.churchId # church.id}
                                 \cup {[churchId |-> church.id, key |-> key]},
                            !.io.reports = Append(@, [label |-> "Weekly",
                                                      churchId |-> church.id,
                                                      tick |-> w, at |-> w])]
               IN IF directorFrom(snapshot.users, church.id, 1) # 0 /\ church.emailAlerts
                  THEN [m1 EXCEPT !.pending =
                          Append(@, Suspended("tick", snapshot, i, "weekly", w,
                                              digestMail(snapshot, church, "Weekly"),
                                              <<>>, None))]
                  ELSE afterWeekly(m1, snapshot, i, w, w)

afterWeekly(m, snapshot, i, n, w) ==
  LET church == snapshot.churches[i]
      m1 == [m EXCEPT !.io.notifications =
                        Append(@, digestNotification(church, "Weekly Digest", w))]
      m2 == [m1 EXCEPT !.io.reports = Append(@, [label |-> "Monthly",
                                                 churchId |-> church.id,
                                                 tick |-> n, at |-> w])]
  IN IF dateOf(n).date = daysInMonth(n)
     THEN IF directorFrom(snapshot.users, church.id, 1) # 0 /\ church.emailAlerts
          THEN [m2 EXCEPT !.pending =
                  Append(@, Suspended("tick", snapshot, i, "monthly", n,
                                      digestMail(snapshot, church, "Monthly"),
                                      <<>>, None))]
          ELSE afterMonthly(m2, snapshot, i, n, w)
     ELSE tickFrom(m1, snapshot, i + 1, w)

afterMonthly(m, snapshot, i, n, w) ==
  tickFrom([m EXCEPT !.io.notifications =
                       Append(@, digestNotification(snapshot.churches[i],
                                                    "Monthly Digest", w))],
           snapshot, i + 1, w)

\* The main-process state as one record, and its assignment.
Main == [scheduler |-> scheduler, io |-> io, pending |-> pending]

SetMain(m) ==
  /\ scheduler' = m.scheduler
  /\ io' = m.io
  /\ pending' = m.pending

\* pending without its k-th element.
Without(seq, k) == SubSeq(seq, 1, k - 1) \o SubSeq(seq, k + 1, Len(seq))

\* The interval timer fires: one run of tick up to its first await.
tick ==
  /\ LET m == tickFrom([Main EXCEPT !.io.ticks = @ \cup {wall}],
                       getSnapshot(data), 1, wall)
     IN /\ Len(m.pending) <= MaxPending
        /\ SetMain(m)
  /\ UNCHANGED <<data, disk, wrote, now, nextId, call, ret, sessions, wall>>

\* The send awaited by the k-th suspended tick succeeds: the tick goes on.
digestMailResolves(k) ==
  /\ k \in 1..Len(pending)
  /\ pending[k].kind = "tick"
  /\ LET c == pending[k]
         m == [Main EXCEPT !.pending = Without(@, k),
                           !.io.mails = Append(@, [mail |-> c.mail, result |-> "sent"])]
         m1 == IF c.stage = "weekly"
               THEN afterWeekly(m, c.snapshot, c.i, c.now, wall)
               ELSE afterMonthly(m, c.snapshot, c.i, c.now, wall)
     IN /\ Len(m1.pending) <= MaxPending
        /\ SetMain(m1)
  /\ UNCHANGED <<data, disk, wrote, now, nextId, call, ret, sessions, wall>>

\* The send awaited by the k-th suspended tick fails: the promise of tick
\* rejects, nobody catches it, and the rest of the tick never runs.
digestMailRejects(k) ==
  /\ k \in 1..Len(pending)
  /\ pending[k].kind = "tick"
  /\ SetMain([Main EXCEPT
                !.pending = Without(@, k),
                !.io.mails = Append(@, [mail |-> pending[k].mail, result |-> "failed"]),
                !.io.rejected = Append(@, [from |-> "tick", now |-> pending[k].now,
                                           churchId |-> pending[k].snapshot.churches[pending[k].i].id])])
  /\ UNCHANGED <<data, disk, wrote, now, nextId, call, ret, sessions, wall>>

-----------------------------------------------------------------------------
(* Scheduler specification: a store with one or two churches, the wall     *)
(* clock moving through instants around the digest windows, and ticks at   *)
(* any of them.                                                            *)

Instants ==
  {At(1, 7, 59), At(1, 8, 2), At(1, 8, 4), At(1, 8, 6), At(1, 9, 2),
   At(2, 8, 57), At(2, 9, 0), At(8, 8, 2), At(32, 8, 2)}

\* Time passes; the record of the day's ticks starts anew with each day.
wallAdvance ==
  /\ \E w \in Instants : w > wall /\ wall' = w
  /\ io' = [io EXCEPT !.ticks = {t \in @ : dayIndex(t) = dayIndex(wall')}]
  /\ UNCHANGED <<data, disk, wrote, now, nextId, call, ret, sessions, scheduler, pending>>

\* The seed store after one signup: the second church has a director and no
\* email alerts.
signedUpData ==
  [seedData EXCEPT
     !.churches = Append(@, [id |-> 100, planId |-> 1, primaryCampusId |-> 102,
                             smtp |-> NoSmtp,
                             digestPreference |-> [dayOfWeek |-> 1,
                                                   time |-> <<"0", "8", ":", "0", "0">>],
                             emailAlerts |-> FALSE, audibleAlerts |-> TRUE,
                             campuses |-> << [id |-> 102, churchId |-> 100, primary |-> TRUE] >>]),
     !.campuses = Append(@, [id |-> 102, churchId |-> 100, primary |-> TRUE]),
     !.users = Append(@, [id |-> 101, churchId |-> 100, name |-> <<"Pat">>,
                          role |-> "director", email |-> <<"pat@newhope.church">>]),
     !.credentials = Append(@, [userId |-> 101, passwordHash |-> hashSync("secret")])]

\* A store whose file sets other digest preferences: the first church wants
\* its digest on Tuesday at 08:57 and has no email alerts, the second one on
\* Monday at 08:00 with email alerts.
configuredData ==
  [signedUpData EXCEPT
     !.churches[1].digestPreference = [dayOfWeek |-> 2, time |-> <<"0", "8", ":", "5", "7">>],
     !.churches[1].emailAlerts = FALSE,
     !.churches[2].emailAlerts = TRUE]

SchedulerStores == {seedData, signedUpData, configuredData}

InitScheduler ==
  /\ Idle
  /\ data \in SchedulerStores
  /\ disk = data
  /\ wrote = TRUE
  /\ now = 1
  /\ nextId = IF data = seedData THEN 0 ELSE 4
  /\ call = [op |-> "constructor", arg |-> None, at |-> 1]
  /\ ret = Undefined
  /\ sessions = {}

NextScheduler ==
  \/ wallAdvance
  \/ tick
  \/ \E k \in 1..MaxPending : digestMailResolves(k)
  \/ \E k \in 1..MaxPending : digestMailRejects(k)

SpecScheduler == InitScheduler /\ [][NextScheduler]_vars

-----------------------------------------------------------------------------
(* Timer specification: the scheduler is started at some minute of Sunday  *)
(* evening and its interval timer fires every period from then on, through *)
(* the whole of Monday and into Tuesday.                                   *)

\* 1000 * 60 * 30 milliseconds, in minutes.
TimerPeriod == 30

StartTimes == {At(0, 23, 30) + o : o \in 0..(TimerPeriod - 1)}

TimerEnd == At(2, 0, 2 * TimerPeriod)

\* The seed store with another time of day in the church's preference.
laterData ==
  [seedData EXCEPT !.churches[1].digestPreference.time = <<"0", "8", ":", "5", "7">>]

TimerStores == {seedData, laterData, signedUpData}

InitTimer ==
  /\ data \in TimerStores
  /\ disk = data
  /\ wrote = TRUE
  /\ now = 1
  /\ nextId = IF data = signedUpData THEN 4 ELSE 0
  /\ call = [op |-> "constructor", arg |-> None, at |-> 1]
  /\ ret = Undefined
  /\ sessions = {}
  /\ wall \in StartTimes
  /\ scheduler = [lastDigestSent |-> {}, interval |-> FALSE, timers |-> 0]
  /\ pending = <<>>
  /\ io = [ticks |-> {}, reports |-> <<>>, mails |-> <<>>, notifications |-> <<>>,
           rejected |-> <<>>, replies |-> {}]

\* Faulty variant: a timer is armed whether or not one is held.
start_Unguarded ==
  /\ scheduler' = [scheduler EXCEPT !.interval = TRUE, !.timers = @ + 1]
  /\ UNCHANGED <<data, disk, wrote, now, nextId, call, ret, sessions, wall, pending, io>>

\* ReportScheduler.start: scheduler.interval tells whether the object holds a
\* timer handle, scheduler.timers counts the interval timers it has armed in
\* the runtime and not cleared.
start ==
  /\ scheduler' = IF scheduler.interval THEN scheduler
                  ELSE [scheduler EXCEPT !.interval = TRUE, !.timers = @ + 1]
  /\ UNCHANGED <<data, disk, wrote, now, nextId, call, ret, sessions, wall, pending, io>>

\* ReportScheduler.stop
stop ==
  /\ scheduler' = IF scheduler.interval
                  THEN [scheduler EXCEPT !.interval = FALSE, !.timers = @ - 1]
                  ELSE scheduler
  /\ UNCHANGED <<data, disk, wrote, now, nextId, call, ret, sessions, wall, pending, io>>

\* One period after the start or after its last firing the timer fires and
\* runs tick up to its first await.
timerFires ==
  /\ scheduler.interval
  /\ wall + TimerPeriod <= TimerEnd
  /\ wall' = wall + TimerPeriod
  /\ LET m == tickFrom([Main EXCEPT
                          !.io.ticks = {t \in @ : dayIndex(t) = dayIndex(wall')}
                                         \cup {wall'}],
                       getSnapshot(data), 1, wall')
     IN /\ Len(m.pending) <= MaxPending
        /\ SetMain(m)
  /\ UNCHANGED <<data, disk, wrote, now, nextId, call, ret, sessions>>

NextTimer ==
  \/ start
  \/ timerFires
  \/ \E k \in 1..MaxPending : digestMailResolves(k)
  \/ \E k \in 1..MaxPending : digestMailRejects(k)

SpecTimer == InitTimer /\ [][NextTimer]_vars

-----------------------------------------------------------------------------
(* Start and stop: the scheduler is started and stopped at will, time      *)
(* passes, and an armed timer of the runtime may fire at any of the        *)
(* instants.                                                               *)

\* An interval timer armed by start fires and runs tick.
intervalFires ==
  /\ scheduler.timers > 0
  /\ tick

NextStartStop ==
  \/ start
  \/ stop
  \/ wallAdvance
  \/ intervalFires
  \/ \E k \in 1..MaxPending : digestMailResolves(k)
  \/ \E k \in 1..MaxPending : digestMailRejects(k)

SpecStartStop == InitScheduler /\ [][NextStartStop]_vars

-----------------------------------------------------------------------------
(* The alerts of the IPC layer: the tasks:update-status handler and the    *)
(* past-due sweep callback.  Both call the store, notify the renderer and  *)
(* await an email send.  io.replies holds what the handler's callers got;  *)
(* the timestamps of these notifications are readings of the store's clock.*)

assignmentNotification(title, churchId, t) ==
  [title |-> title, kind |-> "assignment", churchId |-> churchId, timestamp |-> t]

assignmentMail(snapshot, churchId, what) ==
  [to |-> snapshot.users[directorFrom(snapshot.users, churchId, 1)].email,
   subject |-> <<churchId, what>>,
   smtp |-> snapshot.churches[IndexOfId(snapshot.churches, churchId, 1)].smtp]

\* `director && church?.emailAlerts`
emailsDirector(snapshot, churchId) ==
  LET c == IndexOfId(snapshot.churches, churchId, 1)
  IN /\ directorFrom(snapshot.users, churchId, 1) # 0
     /\ c # 0
     /\ snapshot.churches[c].emailAlerts

reply(payload, outcome, value) ==
  [payload |-> payload, outcome |-> outcome, value |-> value]

\* ipcMain.handle(TASK_STATUS): the store's update, the renderer alert, and
\* the email to the director, awaited before the task is returned.
taskStatusHandler(payload, r) ==
  /\ updateTaskStatus(payload, r)
  /\ UNCHANGED <<wall, scheduler>>
  /\ LET task == ret'
     IN IF task = Undefined
        THEN /\ io' = [io EXCEPT !.replies = @ \cup {reply(payload, "returned", task)}]
             /\ pending' = pending
        ELSE LET snapshot == getSnapshot(data')
                 c == IndexOfId(snapshot.churches, task.churchId, 1)
                 title == IF task.status = "completed" THEN "Assignment completed"
                          ELSE "Assignment updated"
                 alerted == IF c # 0 /\ snapshot.churches[c].audibleAlerts
                            THEN Append(io.notifications,
                                        assignmentNotification(title, task.churchId, now'))
                            ELSE io.notifications
             IN IF emailsDirector(snapshot, task.churchId)
                THEN /\ Len(pending) < MaxPending
                     /\ io' = [io EXCEPT !.notifications = alerted]
                     /\ pending' = Append(pending,
                                          Suspended("taskStatus", snapshot, 0, payload, now',
                                                    assignmentMail(snapshot, task.churchId,
                                                                   "assignment update"),
                                                    <<>>, task))
                ELSE /\ io' = [io EXCEPT !.notifications = alerted,
                                         !.replies = @ \cup {reply(payload, "returned", task)}]
                     /\ pending' = pending

\* The send awaited by the handler succeeds: the handler returns the task.
assignmentMailResolves(k) ==
  /\ k \in 1..Len(pending)
  /\ pending[k].kind = "taskStatus"
  /\ pending' = Without(pending, k)
  /\ io' = [io EXCEPT
              !.mails = Append(@, [mail |-> pending[k].mail, result |-> "sent"]),
              !.replies = @ \cup {reply(pending[k].stage, "returned", pending[k].task)}]
  /\ UNCHANGED <<data, disk, wrote, now, nextId, call, ret, sessions, wall, scheduler>>

\* The send awaited by the handler fails: nothing catches it, the handler's
\* promise rejects and the caller gets the error.
assignmentMailRejects(k) ==
  /\ k \in 1..Len(pending)
  /\ pending[k].kind = "taskStatus"
  /\ pending' = Without(pending, k)
  /\ io' = [io EXCEPT
              !.mails = Append(@, [mail |-> pending[k].mail, result |-> "failed"]),
              !.replies = @ \cup {reply(pending[k].stage, "rejected", Undefined)}]
  /\ UNCHANGED <<data, disk, wrote, now, nextId, call, ret, sessions, wall, scheduler>>

\* The keys of `grouped` in the order of Object.entries: the church ids of
\* the tasks in the order of their first occurrence.
RECURSIVE groupKeys(_)
groupKeys(tasks) ==
  IF tasks = <<>> THEN <<>>
  ELSE LET front == groupKeys(SubSeq(tasks, 1, Len(tasks) - 1))
           churchId == tasks[Len(tasks)].churchId
       IN IF \E k \in 1..Len(front) : front[k] = churchId THEN front
          ELSE Append(front, churchId)

\* The loop of the sweep callback from group g on, at clock reading t.
RECURSIVE sweepFrom(_, _, _, _, _)
sweepFrom(m, snapshot, groups, g, t) ==
  IF g > Len(groups) THEN m
  ELSE LET m1 == [m EXCEPT !.io.notifications =
                             Append(@, assignmentNotification("Past Due Alert", groups[g], t))]
       IN IF emailsDirector(snapshot, groups[g])
          THEN [m1 EXCEPT !.pending =
                  Append(@, Suspended("sweep", snapshot, g, "group", t,
                                      assignmentMail(snapshot, groups[g],
                                                     "past due assignments"),
                                      groups, None))]
          ELSE sweepFrom(m1, snapshot, groups, g + 1, t)

\* The five-minute timer of registerIpcHandlers fires: the store's sweep, and
\* for each church with newly past-due tasks an alert and an email.
sweepTimerFires(r) ==
  /\ setPastDueStatuses(r)
  /\ UNCHANGED wall
  /\ LET pastDueTasks == ret'
         m == IF Len(pastDueTasks) > 0
              THEN sweepFrom(Main, getSnapshot(data'), groupKeys(pastDueTasks), 1, now')
              ELSE Main
     IN /\ Len(m.pending) <= MaxPending
        /\ SetMain(m)

\* The send awaited by the sweep callback succeeds: the loop goes on.
sweepMailResolves(k) ==
  /\ k \in 1..Len(pending)
  /\ pending[k].kind = "sweep"
  /\ LET c == pending[k]
         m == sweepFrom([Main EXCEPT
                           !.pending = Without(@, k),
                           !.io.mails = Append(@, [mail |-> c.mail, result |-> "sent"])],
                        c.snapshot, c.groups, c.i + 1, now)
     IN /\ Len(m.pending) <= MaxPending
        /\ SetMain(m)
  /\ UNCHANGED <<data, disk, wrote, now, nextId, call, ret, sessions, wall>>

\* The send awaited by the sweep callback fails: the callback's promise
\* rejects, nobody catches it, and the rest of the loop never runs.
sweepMailRejects(k) ==
  /\ k \in 1..Len(pending)
  /\ pending[k].kind = "sweep"
  /\ SetMain([Main EXCEPT
                !.pending = Without(@, k),
                !.io.mails = Append(@, [mail |-> pending[k].mail, result |-> "failed"]),
                !.io.rejected = Append(@, [from |-> "sweep", now |-> pending[k].now,
                                           churchId |-> pending[k].groups[pending[k].i]])])
  /\ UNCHANGED <<data, disk, wrote, now, nextId, call, ret, sessions, wall>>

\* Inputs of the handlers: a task of the second church that is overdue from
\* the start, and the completion of the first seed task and of no task.
AlertTaskInputs ==
  [churchId : {100}, contactId : {99}, assigneeId : {101},
   category : {"call"}, dueDate : {0}]

AlertStatusUpdates ==
  [taskId : {1, 999}, status : {"completed"}, userId : {2},
   note : {NoNote}, rescheduledFor : {None}]

AlertStores == {seedData, signedUpData}

InitAlerts ==
  /\ Idle
  /\ data \in AlertStores
  /\ disk = data
  /\ wrote = TRUE
  /\ now = 1
  /\ nextId = IF data = seedData THEN 0 ELSE 4
  /\ call = [op |-> "constructor", arg |-> None, at |-> 1]
  /\ ret = Undefined
  /\ sessions = {}

NextAlerts ==
  \/ ClockTick /\ UNCHANGED mainVars
  \/ \E payload \in AlertTaskInputs : createTask(payload, SameReading(3)) /\ UNCHANGED mainVars
  \/ \E payload \in AlertStatusUpdates : taskStatusHandler(payload, SameReading(4))
  \/ sweepTimerFires(SameReading(2))
  \/ \E k \in 1..MaxPending : assignmentMailResolves(k)
  \/ \E k \in 1..MaxPending : assignmentMailRejects(k)
  \/ \E k \in 1..MaxPending : sweepMailResolves(k)
  \/ \E k \in 1..MaxPending : sweepMailRejects(k)

SpecAlerts == InitAlerts /\ [][NextAlerts]_vars

-----------------------------------------------------------------------------
(* Sessions.  io.replies holds what the callers of authenticate, signup    *)
(* and logout got, each with the argument of its call.                     *)

MaxSessions == 2

\* bcryptjs compareSync
compareSync(password, passwordHash) == passwordHash = hashSync(password)

\* Index of the first user with that email, 0 when none.
RECURSIVE userByEmail(_, _, _)
userByEmail(users, email, i) ==
  IF i > Len(users) THEN 0
  ELSE IF users[i].email = email THEN i
  ELSE userByEmail(users, email, i + 1)

\* Index of the first credential of that user, 0 when none.
RECURSIVE credentialOf(_, _, _)
credentialOf(credentials, userId, i) ==
  IF i > Len(credentials) THEN 0
  ELSE IF credentials[i].userId = userId THEN i
  ELSE credentialOf(credentials, userId, i + 1)

\* `data.churches.find((c) => c.id === user.churchId)!`
churchOf(user) ==
  LET c == IndexOfId(data.churches, user.churchId, 1)
  IN IF c = 0 THEN Undefined ELSE data.churches[c]

authenticate(payload) ==
  /\ call' = [op |-> "authenticate", arg |-> payload, at |-> now]
  /\ wrote' = FALSE
  /\ UNCHANGED <<data, disk, now>>
  /\ LET u == userByEmail(data.users, payload.email, 1)
         c == IF u = 0 THEN 0 ELSE credentialOf(data.credentials, data.users[u].id, 1)
     IN IF u = 0 \/ c = 0 \/ ~compareSync(payload.password, data.credentials[c].passwordHash)
        THEN /\ ret' = Null
             /\ UNCHANGED <<nextId, sessions>>
        ELSE LET token == 100 + nextId
                 user == data.users[u]
             IN /\ nextId' = nextId + 1
                /\ sessions' = {s \in sessions : s.token # token}
                                 \cup {[token |-> token, userId |-> user.id]}
                /\ ret' = [token |-> token, user |-> user, church |-> churchOf(user)]

\* What getSession returns for a token in the current state; None stands for
\* an undefined or empty token.
getSession(token) ==
  IF token = None THEN Null
  ELSE IF \A s \in sessions : s.token # token THEN Null
  ELSE LET userId == (CHOOSE s \in sessions : s.token = token).userId
           u == IndexOfId(data.users, userId, 1)
       IN IF u = 0 THEN Null
          ELSE [token |-> token, user |-> data.users[u], church |-> churchOf(data.users[u])]

\* ipcMain.handle(SESSION)
session(token) ==
  /\ call' = [op |-> "getSession", arg |-> [token |-> token], at |-> now]
  /\ ret' = getSession(token)
  /\ wrote' = FALSE
  /\ UNCHANGED <<data, disk, now, nextId, sessions>>

\* Faulty variant: the token stays in the map.
logout_Keeps(token) ==
  /\ call' = [op |-> "logout", arg |-> [token |-> token], at |-> now]
  /\ ret' = Undefined
  /\ wrote' = FALSE
  /\ sessions' = sessions
  /\ UNCHANGED <<data, disk, now, nextId>>

logout(token) ==
  /\ call' = [op |-> "logout", arg |-> [token |-> token], at |-> now]
  /\ ret' = Undefined
  /\ wrote' = FALSE
  /\ sessions' = {s \in sessions : s.token # token}
  /\ UNCHANGED <<data, disk, now, nextId>>

\* The caller of the step's call gets its result.
Answered ==
  /\ io' = [io EXCEPT !.replies = @ \cup {[op |-> call'.op, arg |-> call'.arg, value |-> ret']}]
  /\ UNCHANGED <<wall, scheduler, pending>>

\* The tokens handed out so far.
IssuedTokens == {rep.value.token : rep \in {x \in io.replies : x.value \notin {Null, Undefined}}}

\* The seed director with the right and a wrong password, and an address
\* nobody registered.
LoginPayloads ==
  {[email |-> <<"sarah@gracecity.church">>, password |-> "director123"],
   [email |-> <<"sarah@gracecity.church">>, password |-> "connector123"],
   [email |-> <<"pat@newhope.church">>, password |-> "secret"]}

SessionSignups ==
  [name : {<<"Pat">>}, password : {"secret"}, email : {<<"pat@newhope.church">>}]

\* Tokens a caller may present: none, one never handed out, and any handed out.
TokenArgs == {None, 99} \cup {100 + k : k \in 0..(nextId - 1)}

NextSessions ==
  \/ \E payload \in LoginPayloads :
       /\ Cardinality(IssuedTokens) < MaxSessions
       /\ authenticate(payload)
       /\ Answered
  \/ \E payload \in SessionSignups :
       /\ Cardinality(IssuedTokens) < MaxSessions
       /\ signup(payload, SameReading(2))
       /\ Answered
  \/ \E token \in TokenArgs : session(token) /\ UNCHANGED mainVars
  \/ \E token \in TokenArgs : logout(token) /\ Answered

SpecSessions == Init /\ [][NextSessions]_vars

-----------------------------------------------------------------------------
(* Digests.  The clock counts in units of which a week has WeekLength and  *)
(* a month MonthLength; startOf is the first instant of the period that    *)
(* holds t and endOf its last one.  A stored timestamp below 0 lies in the *)
(* period before the first.                                                *)

WeekLength == 4

MonthLength == 8

startOf(t, length) == t - (t % length)

endOf(t, length) == startOf(t, length) + length - 1

\* Faulty variant: the ends of the window belong to it.
between_Inclusive(t, windowStart, windowEnd) == t >= windowStart /\ t <= windowEnd

\* dayjs(t).isAfter(windowStart) && dayjs(t).isBefore(windowEnd)
between(t, windowStart, windowEnd) == t > windowStart /\ t < windowEnd

\* Array.prototype.filter(...).length for a test given as the set of the
\* elements that pass.
RECURSIVE lengthOfFilter(_, _)
lengthOfFilter(seq, passing) ==
  IF seq = <<>> THEN 0
  ELSE (IF Head(seq) \in passing THEN 1 ELSE 0) + lengthOfFilter(Tail(seq), passing)

composeDigest(d, churchId, windowStart, windowEnd, label) ==
  [periodStart |-> windowStart,
   periodEnd |-> windowEnd,
   label |-> label,
   totalActivities |->
     lengthOfFilter(d.activities,
       {a \in Range(d.activities) :
          a.churchId = churchId /\ between(a.createdAt, windowStart, windowEnd)}),
   completedAssignments |->
     lengthOfFilter(d.tasks,
       {t \in Range(d.tasks) :
          /\ t.churchId = churchId
          /\ t.status = "completed"
          /\ t.completedAt # None
          /\ between(t.completedAt, windowStart, windowEnd)}),
   rescheduledAssignments |->
     lengthOfFilter(d.tasks,
       {t \in Range(d.tasks) :
          /\ t.churchId = churchId
          /\ t.status = "rescheduled"
          /\ t.rescheduledFor # None
          /\ between(t.updatedAt, windowStart, windowEnd)}),
   newContacts |->
     lengthOfFilter(d.contacts,
       {c \in Range(d.contacts) :
          c.churchId = churchId /\ between(c.createdAt, windowStart, windowEnd)}),
   converts |->
     lengthOfFilter(d.contacts,
       {c \in Range(d.contacts) : c.churchId = churchId /\ c.temperature = "convert"}),
   pastDueTasks |->
     lengthOfFilter(d.tasks,
       {t \in Range(d.tasks) : t.churchId = churchId /\ t.status = "past-due"})]

generateWeeklyDigest(churchId) ==
  /\ call' = [op |-> "generateWeeklyDigest", arg |-> churchId, at |-> now]
  /\ ret' = composeDigest(data, churchId, startOf(now, WeekLength), endOf(now, WeekLength),
                          "Weekly")
  /\ wrote' = FALSE
  /\ UNCHANGED <<data, disk, now, nextId, sessions>>

generateMonthlyDigest(churchId) ==
  /\ call' = [op |-> "generateMonthlyDigest", arg |-> churchId, at |-> now]
  /\ ret' = composeDigest(data, churchId, startOf(now, MonthLength), endOf(now, MonthLength),
                          "Monthly")
  /\ wrote' = FALSE
  /\ UNCHANGED <<data, disk, now, nextId, sessions>>

\* The log of a stored document, newest first: for church 1 an entry at the
\* last instant of the first week, three inside that week, one at its first
\* instant and one in the week before; and an entry of another church.
weekLog ==
  << [id |-> 16, type |-> "call", note |-> <<"called">>, churchId |-> 1,
      contactId |-> 1, userId |-> 2, taskId |-> None, createdAt |-> 3],
     [id |-> 15, type |-> "call", note |-> <<"called">>, churchId |-> 1,
      contactId |-> 1, userId |-> 2, taskId |-> None, createdAt |-> 2],
     [id |-> 14, type |-> "visit", note |-> <<"visited">>, churchId |-> 1,
      contactId |-> 2, userId |-> 2, taskId |-> None, createdAt |-> 2],
     [id |-> 13, type |-> "call", note |-> <<"called">>, churchId |-> 9,
      contactId |-> 99, userId |-> 99, taskId |-> None, createdAt |-> 1],
     [id |-> 12, type |-> "note", note |-> <<"seed">>, churchId |-> 1,
      contactId |-> 1, userId |-> 2, taskId |-> None, createdAt |-> 1],
     [id |-> 11, type |-> "note", note |-> <<"first">>, churchId |-> 1,
      contactId |-> 1, userId |-> 2, taskId |-> None, createdAt |-> 0],
     [id |-> 10, type |-> "note", note |-> <<"old">>, churchId |-> 1,
      contactId |-> 1, userId |-> 2, taskId |-> None, createdAt |-> -1] >>

weekData == [seedData EXCEPT !.activities = weekLog, !.lastUpdated = 3]

DigestStores == {seedData, weekData}

InitDigest ==
  /\ Idle
  /\ data \in DigestStores
  /\ disk = data
  /\ wrote = TRUE
  /\ now = data.lastUpdated
  /\ nextId = 0
  /\ call = [op |-> "constructor", arg |-> None, at |-> data.lastUpdated]
  /\ ret = Undefined
  /\ sessions = {}

\* Status updates of the first seed task: completed, and rescheduled with and
\* without a new date.
DigestStatusUpdates ==
  {u \in StatusUpdates : u.taskId = 1 /\ u.status \in {"completed", "rescheduled"}}

NextDigest ==
  \/ ClockTick /\ UNCHANGED mainVars
  \/ \E update \in DigestStatusUpdates :
       updateTaskStatus(update, SameReading(4)) /\ UNCHANGED mainVars
  \/ \E churchId \in ChurchArgs : generateWeeklyDigest(churchId) /\ UNCHANGED mainVars
  \/ \E churchId \in ChurchArgs : generateMonthlyDigest(churchId) /\ UNCHANGED mainVars

SpecDigest == InitDigest /\ [][NextDigest]_vars

-----------------------------------------------------------------------------
(* Loading.  The process starts on a stored file, works, and may be        *)
(* started again on the file it left.                                      *)

\* A complete file written by the previous version of the document format.
oldVersionData == [seedData EXCEPT !.version = 2]

\* A file with two churches, each with a campus, and a contact of the first
\* church whose campusId is the campus of the second.
strayCampusData ==
  [seedData EXCEPT
     !.churches = Append(@, [id |-> 3, planId |-> 1, primaryCampusId |-> 5,
                             digestPreference |-> [dayOfWeek |-> 1,
                                                   time |-> <<"0", "8", ":", "0", "0">>],
                             emailAlerts |-> TRUE, audibleAlerts |-> TRUE,
                             smtp |-> NoSmtp,
                             campuses |-> << [id |-> 5, churchId |-> 3, primary |-> TRUE] >>]),
     !.campuses = Append(@, [id |-> 5, churchId |-> 3, primary |-> TRUE]),
     !.contacts = Append(@, [id |-> 3, churchId |-> 1, campusId |-> 5,
                             temperature |-> "new", ownerId |-> None, photoPath |-> NoPath,
                             createdAt |-> 0, updatedAt |-> 0, lastActivityAt |-> 0])]

HydrateFiles ==
  StoredFiles \cup
    { [content |-> oldVersionData, hasCampuses |-> TRUE, fresh |-> FALSE],
      [content |-> strayCampusData, hasCampuses |-> TRUE, fresh |-> FALSE] }

\* The constructor on a stored file, as in InitAdmin.
InitHydrate ==
  \E file \in HydrateFiles :
    LET h == hydrate(file, 0)
    IN /\ data = IF h.mutated THEN persist(h.data, 1) ELSE h.data
       /\ disk = IF h.mutated THEN persist(h.data, 1) ELSE file.content
       /\ wrote = (h.mutated \/ file.fresh)
       /\ now = 1
       /\ nextId = h.nextId
       /\ call = [op |-> "constructor", arg |-> None, at |-> 1]
       /\ ret = Undefined
       /\ sessions = {}
       /\ Idle

\* The process is started again: the constructor reads the file it finds,
\* which has a campuses table by now, and hydrates it; the sessions are gone.
restart ==
  LET h == hydrate([content |-> disk, hasCampuses |-> TRUE, fresh |-> FALSE], nextId)
  IN /\ data' = IF h.mutated THEN persist(h.data, now) ELSE h.data
     /\ disk' = IF h.mutated THEN persist(h.data, now) ELSE disk
     /\ wrote' = h.mutated
     /\ nextId' = h.nextId
     /\ call' = [op |-> "constructor", arg |-> None, at |-> now]
     /\ ret' = Undefined
     /\ sessions' = {}
     /\ UNCHANGED now

NextHydrate ==
  \/ ClockTick /\ UNCHANGED mainVars
  \/ restart /\ UNCHANGED mainVars
  \/ \E payload \in SignupPayloads : signup(payload, SameReading(2)) /\ UNCHANGED mainVars
  \/ \E payload \in PlanUpdates : updatePlan(payload, SameReading(1)) /\ UNCHANGED mainVars

SpecHydrate == InitHydrate /\ [][NextHydrate]_vars

-----------------------------------------------------------------------------
(* Late digests: a church that wants its digest at 23:58, and ticks in the *)
(* last hours of its day and in the first minutes of the next.             *)

NightInstants ==
  {At(1, 22, 59), At(1, 23, 57), At(1, 23, 58), At(1, 23, 59),
   At(2, 0, 0), At(2, 0, 1), At(2, 0, 3), At(2, 23, 58), At(8, 23, 59)}

nightAdvance ==
  /\ \E w \in NightInstants : w > wall /\ wall' = w
  /\ io' = [io EXCEPT !.ticks = {t \in @ : dayIndex(t) = dayIndex(wall')}]
  /\ UNCHANGED <<data, disk, wrote, now, nextId, call, ret, sessions, scheduler, pending>>

\* Stored files whose first church wants its digest on Monday at 23:58, with
\* and without email alerts, alone and followed by a second church.
lateNightData ==
  [seedData EXCEPT !.churches[1].digestPreference.time = <<"2", "3", ":", "5", "8">>]

quietNightData == [lateNightData EXCEPT !.churches[1].emailAlerts = FALSE]

sharedNightData ==
  [signedUpData EXCEPT
     !.churches[1].digestPreference.time = <<"2", "3", ":", "5", "8">>,
     !.churches[1].emailAlerts = FALSE]

NightStores == {lateNightData, quietNightData, sharedNightData}

InitNight ==
  /\ Idle
  /\ data \in NightStores
  /\ disk = data
  /\ wrote = TRUE
  /\ now = 1
  /\ nextId = IF data = sharedNightData THEN 4 ELSE 0
  /\ call = [op |-> "constructor", arg |-> None, at |-> 1]
  /\ ret = Undefined
  /\ sessions = {}

NextNight ==
  \/ nightAdvance
  \/ tick
  \/ \E k \in 1..MaxPending : digestMailResolves(k)
  \/ \E k \in 1..MaxPending : digestMailRejects(k)

SpecNight == InitNight /\ [][NextNight]_vars


-----------------------------------------------------------------------------
(* Identifiers.  Every create operation draws a fresh randomUUID; an       *)
(* import brings in the ids of another installation's file, some equal to  *)
(* ids of the store and some listed twice in the file.  No id depends on   *)
(* the clock, so the operations of this specification all read the same    *)
(* instant.                                                                *)

\* r = <<lastUpdated of persist>>
createTemplate(template, r) ==
  /\ Monotone(r)
  /\ Len(data.templates) < MaxActivities
  /\ UNCHANGED sessions
  /\ LET entry == [id |-> 100 + nextId, churchId |-> template.churchId,
                   category |-> template.category]
         d1 == [data EXCEPT !.templates = Append(@, entry)]
         d2 == persist(d1, r[1])
     IN /\ data' = d2
        /\ disk' = d2
        /\ wrote' = TRUE
        /\ now' = r[1]
        /\ nextId' = nextId + 1
        /\ call' = [op |-> "createTemplate", arg |-> template, at |-> now]
        /\ ret' = entry

\* A file that lists every record twice over: ids of the store, new ids, and
\* each list followed by itself.
DoubledBundle ==
  [church |-> ForeignChurch,
   campuses |-> ForeignCampuses \o ForeignCampuses,
   contacts |-> ForeignContacts \o ForeignContacts,
   tasks |-> ForeignTasks \o ForeignTasks,
   activities |-> ForeignActivities,
   templates |-> ForeignTemplates \o ForeignTemplates,
   generatedAt |-> 0]

\* The files an import can be given: the doubled file and a file exported by
\* another installation.
IdFiles == {DoubledBundle, syncBundleOf(remoteData, 7, 0)}

IdContactInputs == {p \in ContactInputs : p.churchId = 1 /\ p.campusId = None}

IdTaskInputs == {p \in TaskInputs : p.churchId = 1}

IdTemplateInputs == [churchId : {1}, category : {"visit"}]

IdSignups == {p \in SignupPayloads : p.email = <<"pat@newhope.church">>}

NextIds ==
  \/ \E payload \in IdContactInputs : createContact(payload, SameReading(3)) /\ UNCHANGED mainVars
  \/ \E payload \in IdTaskInputs : createTask(payload, SameReading(3)) /\ UNCHANGED mainVars
  \/ \E template \in IdTemplateInputs : createTemplate(template, SameReading(1)) /\ UNCHANGED mainVars
  \/ \E payload \in IdSignups : signup(payload, SameReading(2)) /\ UNCHANGED mainVars
  \/ \E bundle \in IdFiles :
       importSyncBundle(1, bundle, "bundle.json", SameReading(1)) /\ UNCHANGED mainVars

SpecIds == Init /\ [][NextIds]_vars

-----------------------------------------------------------------------------
(* Steps of the handlers, for the properties that relate the state before  *)
(* a call to the state after it.                                           *)

Reads(n) == [1..n -> Times]

SweepStep(dateNow) == \E r \in Reads(2) : r[1] = dateNow /\ setPastDueStatuses(r)

TaskIdx == 1..Len(data.tasks)

\* The log entries a step put at the head of the activity log.
NewEntries == SubSeq(data'.activities, 1, Len(data'.activities) - Len(data.activities))

-----------------------------------------------------------------------------
(* Properties of the task lifecycle.                                       *)

\* C1: once a task's status is completed (set by updateTaskStatus, which
\* stamps completedAt), every later updateTaskStatus call and sweep leaves
\* the status completed and completedAt set.
C1_CompletedIsTerminal ==
  [][\A i \in TaskIdx :
       data.tasks[i].status = "completed" =>
         /\ data.tasks[i].completedAt # None
         /\ data'.tasks[i].status = "completed"
         /\ data'.tasks[i].completedAt # None]_vars

\* C2: after updateTaskStatus with requested status pending on an existing
\* task, the stored status is past-due when dueDate is earlier than the time
\* of the call, and pending otherwise.
C2_PendingIsNormalized ==
  (call.op = "updateTaskStatus" /\ call.arg.status = "pending"
     /\ HasId(data.tasks, call.arg.taskId)) =>
    LET task == data.tasks[IndexOfId(data.tasks, call.arg.taskId, 1)]
    IN /\ task.dueDate < call.at => task.status = "past-due"
       /\ ~(task.dueDate < call.at) => task.status = "pending"
       /\ ret = task

C2_Witness ==
  /\ call.op = "updateTaskStatus" /\ call.arg.status = "pending"
  /\ \E i \in TaskIdx :
       /\ data.tasks[i].id = call.arg.taskId
       /\ data.tasks[i].dueDate < call.at
       /\ data.tasks[i].status = "past-due"
  /\ \E i \in TaskIdx :
       /\ data.tasks[i].id # call.arg.taskId
       /\ data.tasks[i].status = "pending"

\* C3: one run of the sweep leaves every task that was overdue (dueDate
\* earlier than the sweep's clock reading) and pending or in-progress with
\* status past-due.
C3_SweepFlipsOverdue ==
  [][\A dateNow \in Times : SweepStep(dateNow) =>
       \A i \in TaskIdx :
         (data.tasks[i].dueDate < dateNow
            /\ data.tasks[i].status \in {"pending", "in-progress"})
           => data'.tasks[i].status = "past-due"]_vars

C3_Witness ==
  /\ call.op = "setPastDueStatuses"
  /\ \E k \in 1..Len(ret) : ret[k].id = 1 /\ ret[k].status = "past-due"
  /\ data.tasks[1].status = "past-due"
  /\ data.tasks[1].dueDate < call.at

\* C4: the sweep returns exactly the tasks whose status it changed: a stored
\* task is in the returned list iff its status differs before and after the
\* run, the returned list holds nothing else, and every task outside it is
\* left as it was.
C4_SweepReturnsChanged ==
  [][\A dateNow \in Times : SweepStep(dateNow) =>
       /\ Len(data'.tasks) = Len(data.tasks)
       /\ \A i \in TaskIdx :
            /\ (data'.tasks[i] \in Range(ret'))
                 <=> (data'.tasks[i].status # data.tasks[i].status)
            /\ data'.tasks[i] \notin Range(ret') => data'.tasks[i] = data.tasks[i]
       /\ Range(ret') \subseteq Range(data'.tasks)
       /\ Len(ret') = Cardinality(Range(ret'))]_vars

C4_Witness ==
  /\ call.op = "setPastDueStatuses"
  /\ Len(ret) = 1
  /\ \E i \in TaskIdx : data.tasks[i] \notin Range(ret) /\ data.tasks[i].status = "past-due"

\* C5: a second sweep right after a sweep (only time passing in between, and
\* no open task becoming overdue between the two clock readings) returns an empty
\* list, writes nothing and leaves the in-memory document, lastUpdated
\* included, as it was.
C5_SweepIdempotent ==
  [][\A dateNow \in Times :
       (/\ call.op = "setPastDueStatuses"
        /\ SweepStep(dateNow)
        /\ ~\E i \in TaskIdx :
              /\ data.tasks[i].status # "completed"
              /\ call.at <= data.tasks[i].dueDate
              /\ data.tasks[i].dueDate < dateNow)
       => /\ ret' = <<>>
          /\ wrote' = FALSE
          /\ disk' = disk
          /\ data' = data]_vars

C5_Witness ==
  /\ call.op = "setPastDueStatuses"
  /\ ret = <<>>
  /\ wrote = FALSE
  /\ call.at > 1
  /\ \E i \in TaskIdx : data.tasks[i].status = "past-due"
  /\ \E i \in TaskIdx : data.tasks[i].status = "rescheduled" /\ data.tasks[i].dueDate >= call.at

\* C6: a task whose status is past-due or rescheduled changes status only to
\* completed, whatever updateTaskStatus call or sweep runs.
C6_OnlyToCompleted ==
  [][\A i \in TaskIdx :
       (data.tasks[i].status \in {"past-due", "rescheduled"}
          /\ data'.tasks[i].status # data.tasks[i].status)
         => data'.tasks[i].status = "completed"]_vars

\* C7: every change of a task's stored status, by updateTaskStatus or by the
\* sweep, appends exactly one assignment-result log entry carrying that
\* task's id and contact id.
C7_TransitionLogged ==
  [][\A i \in TaskIdx :
       data'.tasks[i].status # data.tasks[i].status =>
         Cardinality({k \in 1..Len(NewEntries) :
                        /\ NewEntries[k].type = "assignment-result"
                        /\ NewEntries[k].taskId = data.tasks[i].id
                        /\ NewEntries[k].contactId = data.tasks[i].contactId}) = 1]_vars

-----------------------------------------------------------------------------
(* Properties of the sync bundle import.                                   *)

\* The step is the import named by the call record of its end state.
ImportStep ==
  /\ call'.op = "importSyncBundle"
  /\ \E r \in Reads(1) :
       importSyncBundle(call'.arg.churchId, call'.arg.bundle, call'.arg.path, r)

Kinds == {"campuses", "contacts", "tasks", "activities", "templates"}

\* C8: importing the same bundle into the same existing church twice in a
\* row (only time passing in between): the second import returns
\* importedContacts = 0 and importedTasks = 0 and leaves every entity
\* collection as the first import left it.
C8_ReimportIsNoOp ==
  [][(/\ call.op = "importSyncBundle"
      /\ ret # ChurchNotFound
      /\ ImportStep
      /\ call'.arg = call.arg)
     => /\ ret'.importedContacts = 0
        /\ ret'.importedTasks = 0
        /\ \A kind \in Kinds : data'[kind] = data[kind]]_vars

C8_Witness ==
  /\ call.op = "importSyncBundle"
  /\ ret # ChurchNotFound
  /\ ret.importedContacts = 0 /\ ret.importedTasks = 0
  /\ call.arg.bundle.contacts = SubSeq(ForeignContacts, 2, 3)
  /\ call.arg.bundle.tasks = SubSeq(ForeignTasks, 1, 2)
  /\ data.contacts = Append(seedData.contacts, ForeignContacts[2])
  /\ data.tasks = Append(seedData.tasks, ForeignTasks[2])

\* C9: an import never overwrites: every record stored before the import
\* whose id occurs in the bundle is stored unchanged after it, at the same
\* place, and no second record with that id is added.
C9_ImportNeverOverwrites ==
  [][ImportStep =>
       \A kind \in Kinds :
         /\ Len(data'[kind]) >= Len(data[kind])
         /\ \A i \in 1..Len(data[kind]) :
              data[kind][i].id \in Ids(call'.arg.bundle[kind]) =>
                /\ data'[kind][i] = data[kind][i]
                /\ \A j \in 1..Len(data'[kind]) :
                     data'[kind][j].id = data[kind][i].id => data'[kind][j] = data[kind][i]]_vars

C9_Witness ==
  /\ call.op = "importSyncBundle"
  /\ ret # ChurchNotFound
  /\ call.arg.bundle.contacts = SubSeq(ForeignContacts, 1, 2)
  /\ call.arg.bundle.tasks = SubSeq(ForeignTasks, 1, 2)
  /\ call.arg.bundle.campuses = ForeignCampuses
  /\ call.arg.bundle.templates = ForeignTemplates
  /\ data.contacts[1] = seedData.contacts[1]
  /\ data.tasks[1] = seedData.tasks[1]
  /\ data.campuses[1] = seedData.campuses[1]
  /\ data.templates[1] = seedData.templates[1]
  /\ ret.importedContacts = 1 /\ ret.importedTasks = 1

\* C10: after an import into an existing church, every record of every
\* entity kind of the bundle whose id was not in the store before is in the
\* store.
C10_ImportAdmitsAbsent ==
  [][(ImportStep /\ ret' # ChurchNotFound) =>
       \A kind \in Kinds :
         \A id \in Ids(call'.arg.bundle[kind]) :
           id \notin Ids(data[kind]) => id \in Ids(data'[kind])]_vars

\* C11: a bundle produced by createSyncBundle (on another installation, or
\* by the export just made here), imported into an existing church of a store
\* that has none of the bundle's contact ids and none of its task ids:
\* importedContacts is the number of contacts of the bundle and importedTasks
\* the number of its tasks.
C11_FreshImportCountsAll ==
  [][LET bundle == call'.arg.bundle
     IN (/\ ImportStep
         /\ ret' # ChurchNotFound
         /\ \/ bundle \in RemoteBundles
            \/ call.op = "createSyncBundle" /\ bundle = ret
         /\ Ids(bundle.contacts) \cap Ids(data.contacts) = {}
         /\ Ids(bundle.tasks) \cap Ids(data.tasks) = {})
        => /\ ret'.importedContacts = Len(bundle.contacts)
           /\ ret'.importedTasks = Len(bundle.tasks)]_vars

C11_Witness ==
  /\ call.op = "importSyncBundle"
  /\ call.arg.bundle = syncBundleOf(remoteLater, 7, 0)
  /\ ret # ChurchNotFound
  /\ ret.importedContacts = 3
  /\ ret.importedTasks = 2
  /\ Ids(data.contacts) = {1, 2, 7, 8, 9}
  /\ Ids(data.tasks) = {1, 2, 7, 9}

\* C12: an import whose churchId is not the id of a stored church fails with
\* an error, admits nothing, writes nothing and leaves the in-memory and the
\* persisted document as they were.
C12_UnknownChurchRejected ==
  [][(ImportStep /\ ~HasId(data.churches, call'.arg.churchId))
       => /\ ret' = ChurchNotFound
          /\ wrote' = FALSE
          /\ data' = data
          /\ disk' = disk]_vars

C12_Witness ==
  /\ call.op = "importSyncBundle"
  /\ call.arg.churchId = 9
  /\ call.arg.bundle \in RemoteBundles
  /\ ret = ChurchNotFound
  /\ wrote = FALSE
  /\ data = seedData
  /\ disk = seedData

\* The step is the export named by the call record of its end state.
ExportStep ==
  /\ call'.op = "createSyncBundle"
  /\ \E r \in Reads(1) : createSyncBundle(call'.arg.churchId, r)

\* C13: createSyncBundle returns null when the church does not exist;
\* otherwise every record of every list of the bundle has the requested
\* churchId and every stored record of that church is in its list; and over
\* any step that leaves the church's own records as they were (it changes
\* other churches' data only) the lists of the church's bundle stay the same.
C13_ExportIsChurchScoped ==
  [][/\ ExportStep =>
          LET c == call'.arg.churchId
          IN IF ~HasId(data.churches, c) THEN ret' = Null
             ELSE /\ ret' # Null
                  /\ \A kind \in Kinds :
                       /\ \A k \in 1..Len(ret'[kind]) : ret'[kind][k].churchId = c
                       /\ \A i \in 1..Len(data[kind]) :
                            data[kind][i].churchId = c => data[kind][i] \in Range(ret'[kind])
                       /\ Len(ret'[kind]) = Cardinality(Range(ret'[kind]))
     /\ \A c \in Ids(data.churches) \cap Ids(data'.churches) :
          (\A kind \in Kinds : OwnRecords(data[kind], c) = OwnRecords(data'[kind], c))
            => \A kind \in Kinds :
                 syncBundleOf(data, c, 0)[kind] = syncBundleOf(data', c, 0)[kind]]_vars

C13_Witness ==
  /\ call.op = "createSyncBundle"
  /\ call.arg.churchId = 1
  /\ ret # Null
  /\ Ids(ret.contacts) = {1, 2}
  /\ Ids(ret.campuses) = {1}
  /\ \E i \in 1..Len(data.contacts) : data.contacts[i].churchId = 7
  /\ \E i \in 1..Len(data.campuses) : data.campuses[i].churchId = 7

-----------------------------------------------------------------------------
(* Properties of contacts, tasks and the activity log.                     *)

\* The step is the createContact call named by the call record of its end state.
CreateContactStep ==
  /\ call'.op = "createContact"
  /\ \E r \in Reads(3) : createContact(call'.arg, r)

\* C14: a createContact call without campusId, for a church that has a
\* primaryCampusId, appends one contact whose campusId is that primaryCampusId
\* and returns it; when no campus can be resolved (the church is unknown or has
\* no primary campus) the call fails with the "No campus configured" error and
\* contacts, activity log, in-memory and persisted document stay as they were,
\* with no write.
C14_DefaultCampusOrReject ==
  [][(CreateContactStep /\ call'.arg.campusId = None) =>
       LET churchId == call'.arg.churchId
           c == IndexOfId(data.churches, churchId, 1)
       IN IF c # 0 /\ data.churches[c].primaryCampusId # None
          THEN /\ Len(data'.contacts) = Len(data.contacts) + 1
               /\ data'.contacts[Len(data'.contacts)].campusId = data.churches[c].primaryCampusId
               /\ data'.contacts[Len(data'.contacts)].churchId = churchId
               /\ ret' = data'.contacts[Len(data'.contacts)]
          ELSE /\ ret' = NoCampus
               /\ data' = data
               /\ disk' = disk
               /\ wrote' = FALSE]_vars

\* A contact was created for church 1 without campusId and got campus 1, and
\* the last call, for the unknown church 9, was rejected.
C14_Witness ==
  /\ call.op = "createContact"
  /\ call.arg.campusId = None
  /\ call.arg.churchId = 9
  /\ ret = NoCampus
  /\ wrote = FALSE
  /\ \E i \in 1..Len(data.contacts) :
       /\ data.contacts[i].id >= 100
       /\ data.contacts[i].churchId = 1
       /\ data.contacts[i].ownerId = 2
       /\ data.contacts[i].campusId = 1

\* C15: every stored contact's campusId is the id of a campus of the campus
\* table whose churchId is the contact's churchId.
C15_ContactCampusOfSameChurch ==
  \A i \in 1..Len(data.contacts) :
    \E k \in 1..Len(data.campuses) :
      /\ data.campuses[k].id = data.contacts[i].campusId
      /\ data.campuses[k].churchId = data.contacts[i].churchId

\* The step is the createTask call named by the call record of its end state.
CreateTaskStep ==
  /\ call'.op = "createTask"
  /\ \E r \in Reads(3) : createTask(call'.arg, r)

\* C16: a createTask call whose churchId is not a stored church, or whose
\* contactId is not a contact of that church, or whose assigneeId is not a
\* user of that church, adds no task and no activity entry.
C16_TaskForeignKeysChecked ==
  [][CreateTaskStep =>
       LET p == call'.arg
           consistent ==
             /\ HasId(data.churches, p.churchId)
             /\ \E i \in 1..Len(data.contacts) :
                  data.contacts[i].id = p.contactId /\ data.contacts[i].churchId = p.churchId
             /\ \E u \in 1..Len(data.users) :
                  data.users[u].id = p.assigneeId /\ data.users[u].churchId = p.churchId
       IN ~consistent => /\ data'.tasks = data.tasks
                         /\ data'.activities = data.activities]_vars

\* C17: every church has at least one campus in the campus table, and its
\* primaryCampusId is the id of a campus of the table whose churchId is that
\* church.
C17_ChurchHasPrimaryCampus ==
  \A c \in 1..Len(data.churches) :
    \E k \in 1..Len(data.campuses) :
      /\ data.campuses[k].churchId = data.churches[c].id
      /\ data.campuses[k].id = data.churches[c].primaryCampusId

\* A version 2 file was loaded (church 1 got the fallback campus 100), a church
\* signed up, a bundle brought campus 7, and church 1's plan and SMTP settings
\* were changed.
C17_Witness ==
  /\ data.churches[1].primaryCampusId = 100
  /\ Len(data.churches) = 2
  /\ data.churches[2].id > 100
  /\ HasId(data.campuses, 7)
  /\ data.churches[1].planId = 1
  /\ data.churches[1].smtp # NoSmtp

\* The contacts a step created or changed, by index in the list after it.
TouchedContacts ==
  {i \in 1..Len(data'.contacts) :
     i > Len(data.contacts) \/ data'.contacts[i] # data.contacts[i]}

\* C18: every step of the store that creates or changes a stored contact
\* puts a new entry at the head of the activity log, and each contact it
\* changed has lastActivityAt equal to that entry's createdAt.
C18_ContactChangeIsLogged ==
  [][TouchedContacts # {} =>
       /\ Len(data'.activities) = Len(data.activities) + 1
       /\ \A i \in TouchedContacts :
            data'.contacts[i].lastActivityAt = Head(data'.activities).createdAt]_vars

\* The step is the call named by the call record of its end state.
UpdateContactStatusStep ==
  /\ call'.op = "updateContactStatus"
  /\ \E r \in Reads(3) : updateContactStatus(call'.arg, r)

UpdateTaskStatusStep ==
  /\ call'.op = "updateTaskStatus"
  /\ \E r \in Reads(4) : updateTaskStatus(call'.arg, r)

\* C19: a createContact, updateContactStatus, createTask or updateTaskStatus
\* call that succeeds makes the activity log exactly one entry longer, the old
\* entries staying in place behind the new one; a call that returns undefined
\* (contact or task not found) leaves the in-memory document, the log and the
\* persisted document as they were and writes nothing.
C19_OneEntryPerChange ==
  [][(CreateContactStep \/ UpdateContactStatusStep \/ CreateTaskStep \/ UpdateTaskStatusStep)
       => /\ (ret' # Undefined /\ ret' # NoCampus)
               => /\ Len(data'.activities) = Len(data.activities) + 1
                  /\ Tail(data'.activities) = data.activities
          /\ ret' = Undefined
               => /\ data' = data
                  /\ disk' = disk
                  /\ wrote' = FALSE]_vars

\* The log grew by one entry for a created contact and by one for a task, and
\* the last call, a status update of an unknown contact, returned undefined.
C19_Witness ==
  /\ call.op = "updateContactStatus"
  /\ call.arg.contactId = 99
  /\ ret = Undefined
  /\ Len(data.activities) = 3
  /\ \E k \in 1..2 : data.activities[k].note = <<"Contact created">>
  /\ \E k \in 1..2 : data.activities[k].type = "task"

\* C20: whenever the store is at rest (after the constructor and after every
\* handler has returned) the persisted document equals the in-memory document.
C20_MemoryIsFlushed == disk = data

-----------------------------------------------------------------------------
(* Properties of the snapshot.                                             *)

\* The fields of a document that hold lists of records.
Collections(d) == DOMAIN d \ {"version", "lastUpdated"}

\* C21: the snapshot of every reachable document has no credentials
\* collection, none of its records is a credential or carries a password
\* hash, and each of its churches lists exactly the campuses of the campus
\* table whose churchId is that church, each once.
C21_SnapshotHidesCredentials ==
  LET snapshot == getSnapshot(data)
  IN /\ "credentials" \notin DOMAIN snapshot
     /\ \A f \in Collections(snapshot) :
          \A k \in 1..Len(snapshot[f]) :
            /\ "passwordHash" \notin DOMAIN snapshot[f][k]
            /\ \A j \in 1..Len(data.credentials) :
                 DOMAIN snapshot[f][k] # DOMAIN data.credentials[j]
     /\ Len(snapshot.churches) = Len(data.churches)
     /\ \A c \in 1..Len(snapshot.churches) :
          LET church == snapshot.churches[c]
              own == {k \in 1..Len(data.campuses) : data.campuses[k].churchId = church.id}
          IN /\ church.id = data.churches[c].id
             /\ Range(church.campuses) = {data.campuses[k] : k \in own}
             /\ Len(church.campuses) = Cardinality(own)

\* The store holds credentials, a church signed up, and an import gave church 1
\* a campus that the church record itself does not list.
C21_Witness ==
  /\ Len(data.credentials) >= 3
  /\ Len(data.churches) >= 2
  /\ \E k \in 1..Len(data.campuses) :
       /\ data.campuses[k].churchId = 1
       /\ data.campuses[k] \notin Range(data.churches[1].campuses)
  /\ Len(getSnapshot(data).churches[1].campuses) = 2

-----------------------------------------------------------------------------
(* Properties of the report scheduler.                                     *)

\* The weekly report files written for a church on the calendar day of w.
WeeklyOf(churchId, w) ==
  {k \in 1..Len(io.reports) :
     /\ io.reports[k].label = "Weekly"
     /\ io.reports[k].churchId = churchId
     /\ dateOf(io.reports[k].tick) = dateOf(w)}

\* C22: for every church and every calendar day the scheduler has generated at
\* most one weekly digest, whatever number of ticks ran that day and whether
\* or not an earlier tick is still awaiting its email send.
C22_OneWeeklyPerDay ==
  \A c \in 1..Len(data.churches) :
    \A k \in 1..Len(io.reports) :
      Cardinality(WeeklyOf(data.churches[c].id, io.reports[k].tick)) <= 1

\* Monday: the tick of 08:02 is still awaiting the email of church 1, the tick
\* of 08:04 has run as well, and church 1 has one weekly digest.
C22_Witness ==
  /\ {At(1, 8, 2), At(1, 8, 4)} \subseteq io.ticks
  /\ \E k \in 1..Len(pending) :
       /\ pending[k].kind = "tick"
       /\ pending[k].now = At(1, 8, 2)
       /\ pending[k].snapshot.churches[pending[k].i].id = 1
  /\ Cardinality(WeeklyOf(1, wall)) = 1

\* The notifications with a title emitted for a church on the calendar day of w.
NotifiedOf(title, churchId, w) ==
  {k \in 1..Len(io.notifications) :
     /\ io.notifications[k].title = title
     /\ io.notifications[k].churchId = churchId
     /\ dateOf(io.notifications[k].timestamp) = dateOf(w)}

\* No tick is suspended at an await.
Settled == pending = <<>>

\* C23: for a church with digestPreference {dayOfWeek: 1, time: "08:00"}:
\* once the tick of Monday 08:02 has run to its end (and also once a second
\* tick has run at 08:04) the church has exactly one weekly digest and exactly
\* one weekly notification for that day.
C23_MondayScenario ==
  \A c \in 1..Len(data.churches) :
    (/\ data.churches[c].digestPreference =
          [dayOfWeek |-> 1, time |-> <<"0", "8", ":", "0", "0">>]
     /\ dayIndex(wall) = 1
     /\ At(1, 8, 2) \in io.ticks
     /\ Settled)
    => /\ Cardinality(WeeklyOf(data.churches[c].id, wall)) = 1
       /\ Cardinality(NotifiedOf("Weekly Digest", data.churches[c].id, wall)) = 1

\* The church's preference matches the day and the window at w and its digest
\* of that day has not been sent.
Due(church, w) ==
  /\ day(w) = church.digestPreference.dayOfWeek
  /\ dueTime(church.digestPreference, w)
  /\ [churchId |-> church.id, key |-> digestKey(church, w)] \notin scheduler.lastDigestSent

\* C24: a tick that runs to its end without awaiting generates the weekly
\* digest of every church that is due at that instant, whatever its place in
\* the church list and whatever the other churches are (due, not due, sent).
C24_EveryDueChurchServed ==
  [][(tick /\ pending' = pending) =>
       \A c \in 1..Len(data.churches) :
         Due(data.churches[c], wall) =>
           \E k \in 1..Len(io'.reports) :
             /\ io'.reports[k].label = "Weekly"
             /\ io'.reports[k].churchId = data.churches[c].id
             /\ io'.reports[k].tick = wall]_vars

\* C25: when the email send awaited by a tick fails, the tick raises nothing,
\* the notification of the church whose send failed is emitted, and the tick
\* goes on to the churches after it (each due one gets its weekly digest).
C25_SendFailureIsolated ==
  [][\A k \in 1..Len(pending) :
       digestMailRejects(k) =>
         LET c == pending[k]
             church == c.snapshot.churches[c.i]
         IN /\ io'.rejected = io.rejected
            /\ \E n \in (Len(io.notifications) + 1)..Len(io'.notifications) :
                 io'.notifications[n].churchId = church.id
            /\ \A j \in (c.i + 1)..Len(c.snapshot.churches) :
                 Due(c.snapshot.churches[j], wall) =>
                   \E r \in 1..Len(io'.reports) :
                     /\ io'.reports[r].label = "Weekly"
                     /\ io'.reports[r].churchId = c.snapshot.churches[j].id
                     /\ io'.reports[r].tick = wall]_vars

\* The monthly report files written for a church on the calendar day of w.
MonthlyOf(churchId, w) ==
  {k \in 1..Len(io.reports) :
     /\ io.reports[k].label = "Monthly"
     /\ io.reports[k].churchId = churchId
     /\ dateOf(io.reports[k].tick) = dateOf(w)}

\* C26: the scheduler generates a monthly digest for a church at most once a
\* calendar day and only on the last day of a month; and once a tick has run
\* on the last day of the month inside the church's time-of-day window, with
\* no send pending or failed, the church has its monthly digest of that day,
\* whether or not the day is the church's weekly day.
C26_MonthlyOnLastDay ==
  /\ \A k \in 1..Len(io.reports) :
       io.reports[k].label = "Monthly" =>
         /\ dateOf(io.reports[k].tick).date = daysInMonth(io.reports[k].tick)
         /\ Cardinality(MonthlyOf(io.reports[k].churchId, io.reports[k].tick)) <= 1
  /\ \A c \in 1..Len(data.churches) :
       (/\ Settled
        /\ io.rejected = <<>>
        /\ \E t \in io.ticks :
             /\ dateOf(t).date = daysInMonth(t)
             /\ dueTime(data.churches[c].digestPreference, t))
       => MonthlyOf(data.churches[c].id, wall) # {}

\* The instant n is on the church's weekly day, at or after its configured
\* time of day and at most five minutes after it.
InDigestWindow(church, n) ==
  LET parts == split(church.digestPreference.time, ":")
      configured == Number(parts[1]) * 60 + Number(parts[2])
      timeOfDay == n % (24 * 60)
  IN /\ day(n) = church.digestPreference.dayOfWeek
     /\ configured <= timeOfDay
     /\ timeOfDay <= configured + 5

\* A report file of the church with that label was written by a loop
\* iteration whose clock reading is inside the church's window.
ReportInWindow(church, label) ==
  \E r \in 1..Len(io.reports) :
    /\ io.reports[r].churchId = church.id
    /\ io.reports[r].label = label
    /\ InDigestWindow(church, io.reports[r].tick)

\* C27: every digest report of a church was generated by a tick whose clock
\* reading is on the church's weekly day and from zero to five minutes after
\* its configured time; every digest email (sent, failed or awaited) and every
\* digest notification of the church follows such a report.  A tick at any
\* other instant therefore produces nothing for the church.
C27_DigestOnlyInWindow ==
  \A c \in 1..Len(data.churches) :
    LET church == data.churches[c]
    IN /\ \A r \in 1..Len(io.reports) :
            io.reports[r].churchId = church.id =>
              InDigestWindow(church, io.reports[r].tick)
       /\ \A k \in 1..Len(io.mails) :
            io.mails[k].mail.subject[1] = church.id =>
              ReportInWindow(church, io.mails[k].mail.subject[2])
       /\ \A k \in 1..Len(pending) :
            (pending[k].kind = "tick" /\ pending[k].mail.subject[1] = church.id) =>
              ReportInWindow(church, pending[k].mail.subject[2])
       /\ \A k \in 1..Len(io.notifications) :
            io.notifications[k].churchId = church.id =>
              ReportInWindow(church,
                             IF io.notifications[k].title = "Weekly Digest"
                             THEN "Weekly" ELSE "Monthly")

\* Tuesday, the first church wants its digest at 08:57: ticks have run at 08:57
\* and at 09:00, the one of 08:57 wrote the church's only weekly digest and the
\* notification is out.
C27_Witness ==
  /\ data.churches[1].digestPreference =
       [dayOfWeek |-> 2, time |-> <<"0", "8", ":", "5", "7">>]
  /\ {At(2, 8, 57), At(2, 9, 0)} \subseteq io.ticks
  /\ \A k \in WeeklyOf(data.churches[1].id, wall) : io.reports[k].tick = At(2, 8, 57)
  /\ Cardinality(WeeklyOf(data.churches[1].id, wall)) = 1
  /\ NotifiedOf("Weekly Digest", data.churches[1].id, wall) # {}

\* C28: the scheduler was started before Monday began and its timer has fired
\* every period through the whole of Monday; no send is pending or has
\* failed.  Then every church whose digest day is Monday has exactly one
\* weekly digest of that Monday and exactly one weekly notification.
C28_OncePerPeriod ==
  (/\ scheduler.interval
   /\ dayIndex(wall) = 2
   /\ Settled
   /\ io.rejected = <<>>)
  => \A c \in 1..Len(data.churches) :
       data.churches[c].digestPreference.dayOfWeek = 1 =>
         /\ Cardinality(WeeklyOf(data.churches[c].id, At(1, 0, 0))) = 1
         /\ Cardinality({k \in 1..Len(io.notifications) :
                           /\ io.notifications[k].title = "Weekly Digest"
                           /\ io.notifications[k].churchId = data.churches[c].id}) = 1

-----------------------------------------------------------------------------
(* Properties of the alerts of the IPC layer.                              *)

\* C29: when the email send awaited by the tasks:update-status handler
\* fails, the handler's caller gets the updated task and no error, and the
\* task's new status, the activity entry of the update and the written
\* document stay as the update left them.
C29_SendFailureNotPropagated ==
  [][\A k \in 1..Len(pending) :
       assignmentMailRejects(k) =>
         LET task == pending[k].task
             payload == pending[k].stage
         IN /\ reply(payload, "returned", task) \in io'.replies
            /\ \A rep \in io'.replies \ io.replies : rep.outcome # "rejected"
            /\ data' = data
            /\ disk' = disk
            /\ \E a \in 1..Len(data'.activities) :
                 /\ data'.activities[a].type = "assignment-result"
                 /\ data'.activities[a].taskId = task.id]_vars

\* C30: when the email send awaited by the past-due sweep callback fails for
\* one church, the callback raises nothing and every church after it in the
\* sweep's groups gets its renderer alert and, if it has a director and email
\* alerts, its email.
C30_SweepFailureIsolated ==
  [][\A k \in 1..Len(pending) :
       sweepMailRejects(k) =>
         LET c == pending[k]
         IN /\ io'.rejected = io.rejected
            /\ \A g \in (c.i + 1)..Len(c.groups) :
                 /\ \E n \in (Len(io.notifications) + 1)..Len(io'.notifications) :
                      /\ io'.notifications[n].title = "Past Due Alert"
                      /\ io'.notifications[n].churchId = c.groups[g]
                 /\ emailsDirector(c.snapshot, c.groups[g]) =>
                      \/ \E j \in 1..Len(pending') :
                           pending'[j].kind = "sweep" /\ pending'[j].groups[pending'[j].i] = c.groups[g]
                      \/ \E j \in (Len(io.mails) + 1)..Len(io'.mails) :
                           io'.mails[j].mail.subject[1] = c.groups[g]]_vars

-----------------------------------------------------------------------------
(* Properties of the sessions.                                             *)

\* The tokens passed to logout so far.
LoggedOutTokens == {rep.arg.token : rep \in {x \in io.replies : x.op = "logout"}}

\* The user a token was handed out to.
IssuedTo(token) ==
  (CHOOSE rep \in io.replies :
     rep.value \notin {Null, Undefined} /\ rep.value.token = token).value.user

\* C31: for every token, getSession returns a session exactly when the token
\* was handed out by a successful authenticate or signup and has not been
\* passed to logout since, and the session is that token with the user it was
\* handed out to; a failed authenticate or signup returned null and is not in
\* the map, and a token passed to logout has no session ever after.
C31_SessionIffIssuedAndNotLoggedOut ==
  /\ \A token \in TokenArgs :
       /\ getSession(token) # Null
            <=> (token \in IssuedTokens /\ token \notin LoggedOutTokens)
       /\ getSession(token) # Null =>
            /\ getSession(token).token = token
            /\ getSession(token).user = IssuedTo(token)
  /\ \A s \in sessions : s.token \in IssuedTokens
  /\ call.op = "getSession" => ret = getSession(call.arg.token)

\* One token was handed out and passed to logout, another is still valid, a
\* login with a wrong password has failed, and getSession has just answered
\* with a session.
C31_Witness ==
  /\ \E t1 \in IssuedTokens : \E t2 \in IssuedTokens :
       /\ t1 \in LoggedOutTokens
       /\ getSession(t1) = Null
       /\ t2 \notin LoggedOutTokens
       /\ getSession(t2) # Null
  /\ \E rep \in io.replies : rep.op = "authenticate" /\ rep.value = Null
  /\ call.op = "getSession"
  /\ ret # Null

-----------------------------------------------------------------------------
(* Properties of the digests.                                              *)

\* The last call was generateWeeklyDigest or generateMonthlyDigest.
DigestAnswered == call.op \in {"generateWeeklyDigest", "generateMonthlyDigest"}

\* C32: totalActivities of a digest is the number of log entries of the
\* church whose createdAt is strictly after the window's start and strictly
\* before its end; entries at the start or at the end, outside the window or
\* of another church are not counted (three inside the first week, with one
\* at each end and one in the week before, give 3 for that week).
C32_TotalActivitiesStrictlyInside ==
  DigestAnswered =>
    /\ ret.totalActivities =
         Cardinality({k \in 1..Len(data.activities) :
                        /\ data.activities[k].churchId = call.arg
                        /\ ret.periodStart < data.activities[k].createdAt
                        /\ data.activities[k].createdAt < ret.periodEnd})
    /\ (/\ data.activities = weekLog
        /\ call.arg = 1
        /\ ret.label = "Weekly"
        /\ ret.periodStart = 0)
         => ret.totalActivities = 3

\* The weekly digest of church 1 over the stored log: entries of the church
\* at the first and at the last instant of the week and in the week before,
\* an entry of another church inside the week, and a total of 3.
C32_Witness ==
  /\ call.op = "generateWeeklyDigest"
  /\ call.arg = 1
  /\ ret.totalActivities = 3
  /\ \E k \in 1..Len(data.activities) :
       data.activities[k].churchId = 1 /\ data.activities[k].createdAt = ret.periodStart
  /\ \E k \in 1..Len(data.activities) :
       data.activities[k].churchId = 1 /\ data.activities[k].createdAt = ret.periodEnd
  /\ \E k \in 1..Len(data.activities) :
       data.activities[k].churchId = 1 /\ data.activities[k].createdAt < ret.periodStart
  /\ \E k \in 1..Len(data.activities) :
       /\ data.activities[k].churchId # 1
       /\ ret.periodStart < data.activities[k].createdAt
       /\ data.activities[k].createdAt < ret.periodEnd

\* C33: rescheduledAssignments of a digest is the number of tasks of the
\* church whose status is rescheduled and whose updatedAt is strictly inside
\* the window, with or without a rescheduledFor; completedAssignments is the
\* number whose status is completed and whose completedAt is strictly inside.
C33_AssignmentCounts ==
  DigestAnswered =>
    /\ ret.rescheduledAssignments =
         Cardinality({k \in 1..Len(data.tasks) :
                        /\ data.tasks[k].churchId = call.arg
                        /\ data.tasks[k].status = "rescheduled"
                        /\ ret.periodStart < data.tasks[k].updatedAt
                        /\ data.tasks[k].updatedAt < ret.periodEnd})
    /\ ret.completedAssignments =
         Cardinality({k \in 1..Len(data.tasks) :
                        /\ data.tasks[k].churchId = call.arg
                        /\ data.tasks[k].status = "completed"
                        /\ data.tasks[k].completedAt # None
                        /\ ret.periodStart < data.tasks[k].completedAt
                        /\ data.tasks[k].completedAt < ret.periodEnd})

-----------------------------------------------------------------------------
(* Properties of loading.                                                  *)

\* C34: right after the constructor has hydrated the stored document, every
\* church has a campus, every contact whose church exists has the campusId of
\* a campus of that church, the version in memory is the current one, the
\* file holds the document that is in memory, and hydrating that document
\* again changes nothing and calls for no write.
C34_HydrateRepairsAndPersists ==
  call.op = "constructor" =>
    /\ \A c \in 1..Len(data.churches) :
         OwnRecords(data.campuses, data.churches[c].id) # <<>>
    /\ \A k \in 1..Len(data.contacts) :
         HasId(data.churches, data.contacts[k].churchId) =>
           \E m \in 1..Len(data.campuses) :
             /\ data.campuses[m].id = data.contacts[k].campusId
             /\ data.campuses[m].churchId = data.contacts[k].churchId
    /\ data.version = DB_VERSION
    /\ disk = data
    /\ LET again == hydrate([content |-> data, hasCampuses |-> TRUE, fresh |-> FALSE], nextId)
       IN again.data = data /\ ~again.mutated

-----------------------------------------------------------------------------
(* Properties of the activity log.                                         *)

\* The log is in non-increasing order of createdAt.
NewestFirst(log) ==
  \A k \in 1..(Len(log) - 1) : log[k].createdAt >= log[k + 1].createdAt

\* C35: every step leaves the entries the log had as they were, in their
\* order, below whatever entries it puts at the head, and the log it leaves
\* is in non-increasing order of createdAt.
C35_LogAppendOnlyNewestFirst ==
  [][/\ Len(data'.activities) >= Len(data.activities)
     /\ SubSeq(data'.activities,
               Len(data'.activities) - Len(data.activities) + 1,
               Len(data'.activities)) = data.activities
     /\ NewestFirst(data'.activities)]_vars

\* The log holds the seed entry below two entries written at later clock
\* readings, the newest on top.
C35_Witness ==
  /\ Len(data.activities) = 3
  /\ data.activities[3] = seedData.activities[1]
  /\ data.activities[1].createdAt > data.activities[2].createdAt
  /\ data.activities[2].createdAt > data.activities[3].createdAt

-----------------------------------------------------------------------------
(* Properties of start and stop.                                           *)

\* C36: under any sequence of start and stop calls at most one interval timer
\* is armed, and one is armed exactly when the scheduler holds a handle; a
\* start while running arms no second timer and a stop while stopped changes
\* nothing; and a timer fires only while the scheduler is started, so that
\* between a stop and the next start no tick is triggered.
C36_StartStopIdempotent ==
  [][/\ scheduler'.timers <= 1
     /\ scheduler'.interval <=> scheduler'.timers = 1
     /\ (start /\ scheduler.interval) => scheduler' = scheduler
     /\ (stop /\ ~scheduler.interval) => scheduler' = scheduler
     /\ stop => scheduler'.timers = 0
     /\ intervalFires => scheduler.interval]_vars

\* The scheduler has been started, has run a tick that generated a digest,
\* and has been stopped: no timer is armed.
C36_Witness ==
  /\ ~scheduler.interval
  /\ scheduler.timers = 0
  /\ scheduler.lastDigestSent # {}
  /\ io.ticks # {}

-----------------------------------------------------------------------------
(* Properties of a digest time near midnight.                              *)

\* The church wants its digest at 23:58.
WantsLateDigest(church) ==
  church.digestPreference.time = <<"2", "3", ":", "5", "8">>

\* C37 as stated: for a church whose digest time is "23:58" no tick at any
\* time of its day generates a digest.
C37_LateDigestNeverFires ==
  \A c \in 1..Len(data.churches) :
    WantsLateDigest(data.churches[c]) =>
      \A r \in 1..Len(io.reports) : io.reports[r].churchId # data.churches[c].id

\* C37 amended: for a church whose digest time is "23:58" a tick generates a
\* digest only at 23:58 or 23:59 of the church's day; a tick at any other
\* time, the first minutes after midnight included, generates none.
C37_LateDigestOnlyBeforeMidnight ==
  \A c \in 1..Len(data.churches) :
    WantsLateDigest(data.churches[c]) =>
      \A r \in 1..Len(io.reports) :
        io.reports[r].churchId = data.churches[c].id =>
          /\ day(io.reports[r].tick) = data.churches[c].digestPreference.dayOfWeek
          /\ hour(io.reports[r].tick) = 23
          /\ minute(io.reports[r].tick) \in {58, 59}

\* The tick of Monday 23:59 wrote the church's weekly digest, the one of
\* 23:57 had not, and the tick of Tuesday 00:01 has run and written nothing.
C37_Witness ==
  /\ WantsLateDigest(data.churches[1])
  /\ At(2, 0, 1) \in io.ticks
  /\ \E r \in 1..Len(io.reports) :
       /\ io.reports[r].churchId = data.churches[1].id
       /\ io.reports[r].label = "Weekly"
       /\ io.reports[r].tick = At(1, 23, 59)
  /\ \A r \in 1..Len(io.reports) : dayIndex(io.reports[r].tick) = 1

-----------------------------------------------------------------------------
(* Properties of the sweep among suspended callbacks.                      *)

\* The renderer alerts about past-due tasks that a step adds.
NewPastDueAlerts ==
  {n \in (Len(io.notifications) + 1)..Len(io'.notifications) :
     io'.notifications[n].title = "Past Due Alert"}

\* C38: whatever callbacks are suspended at their email await, a sweep
\* reports exactly the tasks it changes, each once; every one of them was
\* neither completed nor past-due before and is past-due after; no completed
\* task is changed; and the alerts a step adds are one for each church of the
\* sweep it belongs to, never a second one for the same church of that sweep.
C38_SweepInterleavesSafely ==
  [][/\ sweepTimerFires(SameReading(2)) =>
          /\ Len(data'.tasks) = Len(data.tasks)
          /\ Len(ret') = Cardinality(Range(ret'))
          /\ \A i \in TaskIdx :
               /\ (data'.tasks[i] \in Range(ret')) <=> (data'.tasks[i] # data.tasks[i])
               /\ data'.tasks[i] # data.tasks[i] =>
                    /\ data.tasks[i].status \notin {"completed", "past-due"}
                    /\ data'.tasks[i] = [data.tasks[i] EXCEPT !.status = "past-due"]
               /\ data.tasks[i].status = "completed" => data'.tasks[i] = data.tasks[i]
          /\ \A n \in NewPastDueAlerts :
               \E t \in Range(ret') : t.churchId = io'.notifications[n].churchId
     /\ (\E k \in 1..Len(pending) : sweepMailResolves(k) \/ sweepMailRejects(k)) =>
          /\ data' = data
          /\ \A k \in 1..Len(pending) :
               sweepMailResolves(k) =>
                 \A n \in NewPastDueAlerts :
                   \E g \in (pending[k].i + 1)..Len(pending[k].groups) :
                     pending[k].groups[g] = io'.notifications[n].churchId
     /\ \A n \in NewPastDueAlerts : \A m \in NewPastDueAlerts :
          io'.notifications[n].churchId = io'.notifications[m].churchId => n = m
     /\ (\E k \in 1..Len(pending) : assignmentMailResolves(k) \/ assignmentMailRejects(k)) =>
          data' = data /\ NewPastDueAlerts = {}]_vars

\* Two sweeps are suspended at their email await, the second having found a
\* task that became overdue after the first; the first one's task is still
\* past-due and was not reported again.
C38_Witness ==
  /\ Len(pending) = 2
  /\ pending[1].kind = "sweep"
  /\ pending[2].kind = "sweep"
  /\ call.op = "setPastDueStatuses"
  /\ Len(ret) = 1
  /\ \E i \in TaskIdx : data.tasks[i].status = "past-due" /\ data.tasks[i] \notin Range(ret)

-----------------------------------------------------------------------------
UniqueIds(seq) ==
  \A i, j \in 1..Len(seq) : seq[i].id = seq[j].id => i = j

\* C39: starting from a document with unique ids, after any sequence of
\* creates, signups and imports no two campuses, no two contacts, no two
\* tasks and no two templates share an id; an import skips the ids already
\* present, including those it pushed earlier from the same bundle.
C39_IdsUniqueInEachCollection ==
  /\ UniqueIds(data.campuses)
  /\ UniqueIds(data.contacts)
  /\ UniqueIds(data.tasks)
  /\ UniqueIds(data.templates)

\* The doubled file was imported into a store that already held created
\* records and a signed-up church's campus: of the ids it lists several
\* times, the store has taken each once.
C39_Witness ==
  /\ call.op = "importSyncBundle"
  /\ call.arg.bundle = DoubledBundle
  /\ wrote
  /\ ret.importedContacts = 1
  /\ ret.importedTasks = 1
  /\ \E i \in 1..Len(data.contacts) : data.contacts[i].id >= 100
  /\ \E i \in 1..Len(data.campuses) : data.campuses[i].id >= 100
  /\ \E i \in 1..Len(data.templates) : data.templates[i].id >= 100
  /\ Cardinality({i \in 1..Len(data.campuses) : data.campuses[i].id = 7}) = 1
  /\ Cardinality({i \in 1..Len(data.templates) : data.templates[i].id = 7}) = 1

-----------------------------------------------------------------------------
\* The records a step has added to one collection.
Admitted(kind) ==
  {x \in Range(data'[kind]) : ~HasId(data[kind], x.id)}

\* C40: every campus, contact, task and template that importSyncBundle
\* admits has the churchId the import was called with, so an import adds
\* records under no church but the one named in the call.
C40_ImportKeepsTenantsSeparate ==
  [][\A churchId \in ChurchArgs : \A bundle \in TransferFiles :
       importSyncBundle(churchId, bundle, "bundle.json", SameReading(1)) =>
         \A kind \in {"campuses", "contacts", "tasks", "templates"} :
           \A x \in Admitted(kind) : x.churchId = churchId]_vars

====
